---- MODULE Spec2Model ----
(***************************************************************************)
(* Meeting-Scheduler: the agent session of the three front ends            *)
(* (WhatsAppMCPClient, TelegramMeetingScheduler, the CLI client): registry *)
(* loading, handle_user_message with its tool-call governor, and the       *)
(* response finalizer.  The language-model agent (llama_index              *)
(* FunctionAgent) is the environment: it runs as a task of its own from    *)
(* agent.run(...) on, writes events to the handler's stream and settles    *)
(* the handler's result; the code reads the stream and awaits the result.  *)
(* Beside the session: the request paths of the three front ends           *)
(* (generate_response, Telegram's and the CLI's main), requests served at  *)
(* the same time, and the contact lookup of the mail server                *)
(* (resolve_emails), with text as sequences of characters.                 *)
(***************************************************************************)
EXTENDS Integers, Sequences, FiniteSets, TLC

(* ---------------------------------------------------------------- bounds *)
\* Tool invocations of one agent run that the model tells apart; the agent
\* may go on invoking tools beyond it (the count saturates).  Keep it above
\* max_tool_calls + 1.
MaxDispatch == 7
\* Tool invocations of a run before the agent is seen to repeat its last tool.
MaxVaried == 2
\* The same horizon as MaxDispatch, where the session's life cycle is followed
\* and the governor's ceiling is not the subject.
LifecycleDispatch == 2
\* handle_user_message calls followed on one session object.
MaxRequests == 2
\* initialize_mcp_clients calls followed on one session object.
MaxInits == 2

\* Lines of the contacts file, and names of one resolve_emails call.
MaxLines == 2
MaxNames == 2

\* Requests in flight at the same time.
MaxConcurrent == 2

(* ------------------------------------------------------------- constants *)
FrontEnds == {"whatsapp", "telegram", "cli"}

\* max_tool_calls = 5  # Prevent infinite loops
max_tool_calls == 5

\* Python's None, and an object reference holding x.
None == <<>>
Some(x) == <<x>>

\* mcp_tool = [McpToolSpec(gmail), McpToolSpec(calendar), McpToolSpec(mom)]
mcp_tool == <<"gmail", "calendar", "mom">>

\* What spec.to_tool_list_async() yields for a provider that responds.
to_tool_list(p) ==
    CASE p = "gmail" -> <<"send_email">>
      [] p = "calendar" -> <<"check_availability", "get_schedule">>
      [] p = "mom" -> <<"generate_mom", "send_mom">>

\* The X mark the literals start with: U+274C in the WhatsApp service, the
\* same character decoded twice in telegram_bot.py.
WaMark == "<U+274C> "
TgMark == "<U+201A U+00F9 U+00E5> "

WaSentinel == WaMark \o "Meeting scheduler is not initialized. Please try again later."
TgSentinel == TgMark \o "Meeting scheduler is not initialized. Please try again later."
Sentinels == {WaSentinel, TgSentinel}

\* f"Sorry, I encountered an error: {str(e)}" per front end.
ErrorText(f, cause) ==
    IF f = "telegram"
    THEN TgMark \o "Sorry, I encountered an error: " \o cause
    ELSE "Sorry, I encountered an error: " \o cause

\* str(e) of the exceptions the environment raises.
Causes == {"rate limit", "connection refused"}
\* None.run(...): the CLI function called without an agent.
NoneRunCause == "'NoneType' object has no attribute 'run'"

\* The agent's settled final output (any value) and str() of it.
Outputs == {"text", "empty", "none"}
Str(o) ==
    CASE o = "text" -> "Meeting scheduled."
      [] o = "empty" -> ""
      [] o = "none" -> "None"

Messages == {"is arun free", "help"}

\* The tools the agent is seen to invoke: the first and the last it holds.
Choices(tools) == IF tools = <<>> THEN {} ELSE {tools[1], tools[Len(tools)]}

\* Events of the handler's stream.
ToolCall(t) == [type |-> "ToolCall", tool |-> t]
ToolCallResult(t) == [type |-> "ToolCallResult", tool |-> t]
AgentOutput == [type |-> "AgentOutput", tool |-> ""]
StopEvent == [type |-> "StopEvent", tool |-> ""]

\* Lines the governor logs.
LogCall(t) == [kind |-> "call", tool |-> t, n |-> 0]
LogResult(t) == [kind |-> "result", tool |-> t, n |-> 0]
LogWarning(n) == [kind |-> "warning", tool |-> "", n |-> n]

\* Events one run can put on the stream before the model stops telling them
\* apart: AgentOutput, ToolCall, ToolCallResult per invocation.
MaxStream(h) == 3 * h

(* ------------------------------------------------------------- variables *)
VARIABLES
    fe,             \* which front end's session this is
    agent,          \* self.agent: None or Some(tool list)
    agent_context,  \* self.agent_context: None or Some(turns it holds)
    initialized,    \* self.initialized (WhatsApp only)
    ipc,            \* initialize_mcp_clients: "idle", "fetch", "agent", "context"
    idx,            \* _get_agent: index of the next spec of mcp_tool
    all_tools,      \* _get_agent: all_tools
    fetched,        \* providers asked for their tool list by this initialize
    initResult,     \* how the last initialize ended: "none", "ok", or raising
                    \* from "fetch_raised", "agent_raised", "context_raised"
    inits,          \* initialize calls so far
    pc,             \* handle_user_message: "idle", "stream", "await", "done"
    message,        \* message_content of the current call
    verbose,        \* verbose of the current call (CLI; the others govern always)
    tool_call_count,
    pos,            \* events of the stream the loop has taken
    cut,            \* the loop was left by break
    log,            \* governor log lines of the current call
    result,         \* how the call ended: [kind, text]
    uninitAtCall,   \* the call found the session uninitialized
    initAtCall,     \* initResult when the call was made
    requests,       \* handle_user_message calls so far
    agentState,     \* the run: "off", "thinking", "tool", "finished", "failed"
    curTool,        \* the tool being executed
    dispatched,     \* tools the agent has executed in this run (saturating)
    stream,         \* events written to the handler's stream
    output,         \* the run's final output
    error,          \* the run's exception text
    runs,           \* agent runs started on this session
    horizon,        \* tool invocations of a run the behaviour tells apart
    contacts_file,  \* gmailServer: the lines of contacts.txt
    names,          \* gmailServer: the names resolve_emails is called with
    resolved,       \* gmailServer: what resolve_emails returned, None before
    proc,           \* the front end's process: "none", "starting", "loading",
                    \* "serving", "exited", "crashed"
    fpc,            \* the request path: "idle", "construct", "initialize",
                    \* "loading", "handle", "replied", "failed"
    inbound,        \* the text of the request on its way, None between two
    reply,          \* what the request path answered, None before
    route,          \* the branch generate_response_async took: "none", "help",
                    \* "status", "session"
    built,          \* a session was constructed for this request
    called,         \* handle_user_message was called for this request
    constructions,  \* sessions constructed for this request
    loads,          \* initialize_mcp_clients calls made for this request
    Settings_llm,   \* Settings.llm: the model object bound last, 0 before
    sessions,       \* session objects: [stage, llm, agentLlm, ctx]
    contexts,       \* Context objects by identity: the messages each one holds
    calls,          \* handle_user_message calls of concurrent requests:
                    \* [stage, ctx, llm, seen]
    tool_pc,        \* call_mcp_tool: "idle", "awaiting", "returned", "raised"
    tool_name,      \* call_mcp_tool: tool_name
    args,           \* call_mcp_tool: args
    call_tool,      \* what client.call_tool does with them: [raises, value]
    client_calls,   \* the calls the client received: <<name, args>> each
    tool_return,    \* what call_mcp_tool returned, None before
    mom_pc,         \* send_mom: "idle", "generating", "sending", "returned"
    transcript,     \* send_mom: transcript
    complete,       \* what self.llm.complete does with the prompt: [raises, value]
    send_email,     \* what gmail_client.call_tool("send_email", ...) does:
                    \* [raises, value], the value a response or str(e)
    mom,            \* send_mom: mom, None before generate_mom returned
    emails,         \* the send_email calls the mail server received
    mom_return,     \* the JSON object send_mom returned, None before
    hook_pc,        \* the webhook: "post", "process", "generate", "send", and
                    \* process_whatsapp_message "returned" or "raised", or
                    \* "responded" without a call of it
    via,            \* "webhook": handle_message was posted to; "direct":
                    \* process_whatsapp_message was called
    body,           \* the JSON body
    wa_id,          \* process_whatsapp_message: wa_id
    wa_response,    \* process_whatsapp_message: response, None before
    generated,      \* generate_response calls made for this body
    pending,        \* the message handed to send_message: [kind, text]
    outbox,         \* the posts made to the Graph API: [to, kind, text, result]
    processed,      \* process_whatsapp_message calls made for this body
    send_raised,    \* send_message calls that raised for this body
    http_status     \* what handle_message answered: [code, message]

sessionVars == <<agent, agent_context, initialized>>
initVars == <<ipc, idx, all_tools, fetched, initResult, inits>>
handleVars == <<pc, message, verbose, tool_call_count, pos, cut, log, result,
                uninitAtCall, initAtCall, requests>>
agentVars == <<agentState, curTool, dispatched, stream, output, error, runs>>
clientVars == <<fe, horizon, sessionVars, initVars, handleVars, agentVars>>
gmailVars == <<contacts_file, names, resolved>>
frontVars == <<proc, fpc, inbound, reply, route, built, called, constructions, loads>>
concVars == <<Settings_llm, sessions, contexts, calls>>
toolVars == <<tool_pc, tool_name, args, call_tool, client_calls, tool_return>>
momVars == <<mom_pc, transcript, complete, send_email, mom, emails, mom_return>>
hookVars == <<hook_pc, via, body, wa_id, wa_response, generated, pending, outbox,
              processed, send_raised, http_status>>
serverVars == <<toolVars, momVars, hookVars>>
vars == <<clientVars, gmailVars, frontVars, concVars, serverVars>>

NoResult == [kind |-> "none", text |-> ""]
Returned(s) == [kind |-> "returned", text |-> s]
Raised(s) == [kind |-> "raised", text |-> s]

(* ------------------------------------------------------------------ Init *)
\* No lookup is made in the mail server, and a step of the client makes none.
NoLookup ==
    /\ contacts_file = <<>>
    /\ names = <<>>
    /\ resolved = None
\* No front end is running, and a call made on the session moves none.
NoFrontEnd ==
    /\ proc = "none"
    /\ fpc = "idle"
    /\ inbound = None
    /\ reply = None
    /\ route = "none"
    /\ built = FALSE
    /\ called = FALSE
    /\ constructions = 0
    /\ loads = 0
\* No request is in flight beside the one followed, and none is followed here.
NoConcurrency ==
    /\ Settings_llm = 0
    /\ sessions = <<>>
    /\ contexts = <<>>
    /\ calls = <<>>
\* No tool server's function is running.
NoToolCall ==
    /\ tool_pc = "idle"
    /\ tool_name = ""
    /\ args = <<>>
    /\ call_tool = [raises |-> FALSE, value |-> [success |-> TRUE, message |-> ""]]
    /\ client_calls = <<>>
    /\ tool_return = None
NoSendMom ==
    /\ mom_pc = "idle"
    /\ transcript = ""
    /\ complete = [raises |-> FALSE, value |-> ""]
    /\ send_email = [raises |-> FALSE, value |-> ""]
    /\ mom = None
    /\ emails = <<>>
    /\ mom_return = None
\* No webhook request is on its way.
NoHook ==
    /\ hook_pc = "post"
    /\ via = "webhook"
    /\ body = [t |-> "null", v |-> <<>>]
    /\ wa_id = None
    /\ wa_response = None
    /\ generated = 0
    /\ pending = None
    /\ outbox = <<>>
    /\ processed = 0
    /\ send_raised = 0
    /\ http_status = None
NoServer == NoToolCall /\ NoSendMom /\ NoHook
Elsewhere == UNCHANGED <<gmailVars, frontVars, concVars, serverVars>>

\* __init__: self.agent = None, self.agent_context = None,
\* self.initialized = False; the CLI's main has bound neither local yet.
Fresh ==
    /\ fe \in FrontEnds
    /\ ipc = "idle"
    /\ idx = 1
    /\ all_tools = <<>>
    /\ fetched = <<>>
    /\ initResult = "none"
    /\ inits = 0
    /\ pc = "idle"
    /\ message = ""
    /\ verbose = FALSE
    /\ tool_call_count = 0
    /\ pos = 0
    /\ cut = FALSE
    /\ log = <<>>
    /\ result = NoResult
    /\ uninitAtCall = FALSE
    /\ initAtCall = "none"
    /\ requests = 0
    /\ agentState = "off"
    /\ curTool = ""
    /\ dispatched = 0
    /\ stream = <<>>
    /\ output = "text"
    /\ error = ""
    /\ runs = 0

Init ==
    /\ Fresh
    /\ horizon = LifecycleDispatch
    /\ agent = None
    /\ agent_context = None
    /\ initialized = FALSE
    /\ NoLookup
    /\ NoConcurrency
    /\ NoFrontEnd
    /\ NoServer

\* No call of the session is in progress.
Quiet == ipc = "idle" /\ pc \in {"idle", "done"}

\* The handler of the last run is gone: no run, no stream, no result of it.
NoRun ==
    /\ agentState' = "off"
    /\ curTool' = ""
    /\ dispatched' = 0
    /\ stream' = <<>>
    /\ output' = "text"
    /\ error' = ""

\* Nothing is left of the last handle_user_message call: its locals and its
\* handler are gone when the next call on the session begins.
NoCall ==
    /\ pc' = "idle"
    /\ message' = ""
    /\ verbose' = FALSE
    /\ tool_call_count' = 0
    /\ pos' = 0
    /\ cut' = FALSE
    /\ log' = <<>>
    /\ result' = NoResult
    /\ uninitAtCall' = FALSE
    /\ initAtCall' = "none"
    /\ NoRun
    /\ UNCHANGED <<requests, runs>>

(* ------------------------------------------------ initialize_mcp_clients *)
\* initialize_mcp_clients up to the first await of _get_agent.
InitializeCall ==
    /\ Quiet
    /\ inits < MaxInits
    /\ inits' = inits + 1
    /\ ipc' = "fetch"
    /\ idx' = 1
    /\ all_tools' = <<>>
    /\ fetched' = <<>>
    /\ initResult' = "none"
    /\ NoCall
    /\ UNCHANGED <<fe, horizon, sessionVars>>

\* except Exception: self.initialized = False (WhatsApp only); raise.
InitFailed(stage) ==
    /\ ipc' = "idle"
    /\ initResult' = stage
    /\ initialized' = FALSE
    /\ UNCHANGED <<idx, inits>>

\* FetchOk that puts a provider's tools in front of those collected so far.
FetchOkInFront ==
    /\ ipc = "fetch"
    /\ idx <= Len(mcp_tool)
    /\ fetched' = Append(fetched, mcp_tool[idx])
    /\ all_tools' = to_tool_list(mcp_tool[idx]) \o all_tools
    /\ idx' = idx + 1
    /\ ipc' = IF idx = Len(mcp_tool) THEN "agent" ELSE "fetch"
    /\ UNCHANGED <<fe, horizon, sessionVars, initResult, inits, handleVars, agentVars>>

\* tools = await spec.to_tool_list_async(); all_tools.extend(tools)
FetchOk ==
    /\ ipc = "fetch"
    /\ idx <= Len(mcp_tool)
    /\ fetched' = Append(fetched, mcp_tool[idx])
    /\ all_tools' = all_tools \o to_tool_list(mcp_tool[idx])
    /\ idx' = idx + 1
    /\ ipc' = IF idx = Len(mcp_tool) THEN "agent" ELSE "fetch"
    /\ UNCHANGED <<fe, horizon, sessionVars, initResult, inits, handleVars, agentVars>>

\* FetchRaise with the failure kept to its provider: the loop goes on.
FetchRaiseSkips ==
    /\ ipc = "fetch"
    /\ idx <= Len(mcp_tool)
    /\ fetched' = Append(fetched, mcp_tool[idx])
    /\ idx' = idx + 1
    /\ ipc' = IF idx = Len(mcp_tool) THEN "agent" ELSE "fetch"
    /\ initResult' = "fetch_raised"
    /\ UNCHANGED <<fe, horizon, sessionVars, all_tools, inits, handleVars, agentVars>>

\* to_tool_list_async raises: out of the loop, out of _get_agent, into the
\* except clause of initialize_mcp_clients.
FetchRaise ==
    /\ ipc = "fetch"
    /\ idx <= Len(mcp_tool)
    /\ fetched' = Append(fetched, mcp_tool[idx])
    /\ InitFailed("fetch_raised")
    /\ UNCHANGED <<fe, horizon, agent, agent_context, all_tools, handleVars, agentVars>>

\* agent = FunctionAgent(tools=all_tools, ...); self.agent = agent
BuildAgentOk ==
    /\ ipc = "agent"
    /\ agent' = Some(all_tools)
    /\ ipc' = "context"
    /\ UNCHANGED <<fe, horizon, agent_context, initialized, idx, all_tools, fetched,
                   initResult, inits, handleVars, agentVars>>

\* FunctionAgent(...) raises.
BuildAgentRaise ==
    /\ ipc = "agent"
    /\ InitFailed("agent_raised")
    /\ UNCHANGED <<fe, horizon, agent, agent_context, all_tools, fetched, handleVars, agentVars>>

\* self.agent_context = Context(self.agent); self.initialized = True
BuildContextOk ==
    /\ ipc = "context"
    /\ agent_context' = Some(0)
    /\ initialized' = (fe = "whatsapp")
    /\ ipc' = "idle"
    /\ initResult' = "ok"
    /\ UNCHANGED <<fe, horizon, agent, idx, all_tools, fetched, inits, handleVars, agentVars>>

\* Context(self.agent) raises.
BuildContextRaise ==
    /\ ipc = "context"
    /\ InitFailed("context_raised")
    /\ UNCHANGED <<fe, horizon, agent, agent_context, all_tools, fetched, handleVars, agentVars>>

(* --------------------------------------------------- handle_user_message *)
\* if not self.initialized or not self.agent or not self.agent_context
\* (WhatsApp); if not self.agent or not self.agent_context (Telegram); the
\* CLI function makes no such test.
NotInitialized(f, init, a, c) ==
    CASE f = "whatsapp" -> (~init) \/ a = None \/ c = None
      [] f = "telegram" -> a = None \/ c = None
      [] f = "cli" -> FALSE

\* return "... Meeting scheduler is not initialized. Please try again later."
Sentinel(f) == IF f = "telegram" THEN TgSentinel ELSE WaSentinel

\* Catch without its except clause: the exception leaves the call.
CatchPropagates(f, cause) == Raised(cause)

\* except Exception as e: return f"Sorry, I encountered an error: {str(e)}"
Catch(f, cause) == Returned(ErrorText(f, cause))

\* Governing with the ceiling applied whatever verbose is.
GoverningAlways(f, v) == TRUE

\* The ceiling applies to every event in the two bots, and in the CLI to the
\* events of a verbose call: `if verbose and isinstance(event, ToolCall)`.
Governing(f, v) == f # "cli" \/ v

\* OverCeiling one call late, and one call early.
OverCeilingLate(n) == n > max_tool_calls + 1
OverCeilingEarly(n) == n >= max_tool_calls

\* tool_call_count > max_tool_calls
OverCeiling(n) == n > max_tool_calls

\* The context a run leaves behind: one more turn in it.
Turn(c) == IF c = None THEN None ELSE Some(c[1] + 1)

\* FreshCall with the count kept on the session: it goes on from the last call.
FreshCallKeepsCount(m, v) ==
    /\ message' = m
    /\ verbose' = v
    /\ tool_call_count' = tool_call_count
    /\ pos' = 0
    /\ cut' = FALSE
    /\ log' = <<>>
    /\ requests' = requests + 1
    /\ initAtCall' = initResult
    /\ uninitAtCall' = (agent = None \/ agent_context = None
                          \/ (fe = "whatsapp" /\ ~initialized))

\* A new call: the per-call locals and what the last call left.
FreshCall(m, v) ==
    /\ message' = m
    /\ verbose' = v
    /\ tool_call_count' = 0
    /\ pos' = 0
    /\ cut' = FALSE
    /\ log' = <<>>
    /\ requests' = requests + 1
    /\ initAtCall' = initResult
    /\ uninitAtCall' = (agent = None \/ agent_context = None
                          \/ (fe = "whatsapp" /\ ~initialized))

\* handle_user_message on a session that fails the test: the sentinel.
HandleSentinel(m, v) ==
    /\ Quiet
    /\ requests < MaxRequests
    /\ NotInitialized(fe, initialized, agent, agent_context)
    /\ FreshCall(m, v)
    /\ result' = Returned(Sentinel(fe))
    /\ pc' = "done"
    /\ NoRun
    /\ UNCHANGED <<fe, horizon, sessionVars, initVars, runs>>

\* handler = self.agent.run(message_content, ctx=self.agent_context) raises:
\* always when agent is None (the CLI function), else as the agent may.
HandleRunRaise(m, v, c) ==
    /\ Quiet
    /\ requests < MaxRequests
    /\ ~NotInitialized(fe, initialized, agent, agent_context)
    /\ FreshCall(m, v)
    /\ result' = Catch(fe, IF agent = None THEN NoneRunCause ELSE c)
    /\ pc' = "done"
    /\ NoRun
    /\ UNCHANGED <<fe, horizon, sessionVars, initVars, runs>>

\* handler = self.agent.run(...); tool_call_count = 0; the run is on its way
\* and the loop waits for its first event.
HandleRun(m, v) ==
    /\ Quiet
    /\ requests < MaxRequests
    /\ ~NotInitialized(fe, initialized, agent, agent_context)
    /\ agent # None
    /\ FreshCall(m, v)
    /\ result' = NoResult
    /\ pc' = "stream"
    /\ agentState' = "thinking"
    /\ stream' = <<>>
    /\ dispatched' = 0
    /\ curTool' = ""
    /\ output' = "text"
    /\ error' = ""
    /\ runs' = runs + 1
    /\ agent_context' = Turn(agent_context)
    /\ UNCHANGED <<fe, horizon, agent, initialized, initVars>>

\* One turn of `async for event in handler.stream_events()`.
GovernorStep ==
    /\ pc = "stream"
    /\ pos < Len(stream)
    /\ LET ev == stream[pos + 1]
           gov == Governing(fe, verbose)
           isCall == gov /\ ev.type = "ToolCall"
           isResult == gov /\ ev.type = "ToolCallResult"
           n == IF isCall THEN tool_call_count + 1 ELSE tool_call_count
           over == isCall /\ OverCeiling(n)
       IN  /\ pos' = pos + 1
           /\ tool_call_count' = n
           /\ cut' = over
           /\ log' = IF over THEN Append(log, LogWarning(n))
                     ELSE IF isCall THEN Append(log, LogCall(ev.tool))
                     ELSE IF isResult THEN Append(log, LogResult(ev.tool))
                     ELSE log
           /\ pc' = IF over \/ ev.type = "StopEvent" THEN "await" ELSE "stream"
    /\ UNCHANGED <<fe, horizon, sessionVars, initVars, message, verbose, result,
                   uninitAtCall, initAtCall, requests, agentVars>>

\* StreamRaise with a time limit on the wait for the next event: the loop is
\* also left when a tool is still out.
StreamRaiseOnTimeout ==
    /\ pc = "stream"
    /\ pos = Len(stream)
    /\ agentState \in {"failed", "tool"}
    /\ result' = Catch(fe, IF agentState = "failed" THEN error ELSE "timed out")
    /\ pc' = "done"
    /\ UNCHANGED <<fe, horizon, sessionVars, initVars, message, verbose, tool_call_count,
                   pos, cut, log, uninitAtCall, initAtCall, requests, agentVars>>

\* The failed run ends the stream: the iterator raises in the loop.
StreamRaise ==
    /\ pc = "stream"
    /\ pos = Len(stream)
    /\ agentState = "failed"
    /\ result' = Catch(fe, error)
    /\ pc' = "done"
    /\ UNCHANGED <<fe, horizon, sessionVars, initVars, message, verbose, tool_call_count,
                   pos, cut, log, uninitAtCall, initAtCall, requests, agentVars>>

\* The failed run ends the stream: the iterator just stops, the loop is over.
StreamEnd ==
    /\ pc = "stream"
    /\ pos = Len(stream)
    /\ agentState = "failed"
    /\ pc' = "await"
    /\ UNCHANGED <<fe, horizon, sessionVars, initVars, message, verbose, tool_call_count,
                   pos, cut, log, result, uninitAtCall, initAtCall, requests, agentVars>>

\* AwaitReturn that treats a cut stream as a failure of the request.
AwaitReturnHardFail ==
    /\ pc = "await"
    /\ agentState = "finished"
    /\ result' = IF cut THEN Catch(fe, "Too many tool calls") ELSE Returned(Str(output))
    /\ pc' = "done"
    /\ UNCHANGED <<fe, horizon, sessionVars, initVars, message, verbose, tool_call_count,
                   pos, cut, log, uninitAtCall, initAtCall, requests, agentVars>>

\* response = await handler; return str(response)
AwaitReturn ==
    /\ pc = "await"
    /\ agentState = "finished"
    /\ result' = Returned(Str(output))
    /\ pc' = "done"
    /\ UNCHANGED <<fe, horizon, sessionVars, initVars, message, verbose, tool_call_count,
                   pos, cut, log, uninitAtCall, initAtCall, requests, agentVars>>

\* response = await handler raises the run's exception.
AwaitRaise ==
    /\ pc = "await"
    /\ agentState = "failed"
    /\ result' = Catch(fe, error)
    /\ pc' = "done"
    /\ UNCHANGED <<fe, horizon, sessionVars, initVars, message, verbose, tool_call_count,
                   pos, cut, log, uninitAtCall, initAtCall, requests, agentVars>>

(* ------------------------------------------------------------- the agent *)
\* What the stream holds after the run wrote evs: beyond MaxStream the
\* events are no longer told apart.
Emit(evs) == IF Len(stream) + Len(evs) <= MaxStream(horizon) THEN stream \o evs ELSE stream

\* The agent decides on a tool and executes it: AgentOutput and ToolCall go
\* to the stream.
AgentToolCall(t) ==
    /\ agentState = "thinking"
    /\ agentState' = "tool"
    /\ curTool' = t
    /\ dispatched < MaxVaried \/ t = curTool
    /\ dispatched' = IF dispatched < horizon THEN dispatched + 1 ELSE dispatched
    /\ stream' = Emit(<<AgentOutput, ToolCall(t)>>)
    /\ UNCHANGED <<fe, horizon, sessionVars, initVars, handleVars, output, error, runs>>

\* The tool returns: ToolCallResult goes to the stream.
AgentToolResult ==
    /\ agentState = "tool"
    /\ agentState' = "thinking"
    /\ stream' = Emit(<<ToolCallResult(curTool)>>)
    /\ UNCHANGED <<fe, horizon, sessionVars, initVars, handleVars, curTool, dispatched,
                   output, error, runs>>

\* The run settles its final output and closes the stream.
AgentFinish(o) ==
    /\ agentState = "thinking"
    /\ agentState' = "finished"
    /\ output' = o
    /\ stream' = Append(stream, StopEvent)
    /\ UNCHANGED <<fe, horizon, sessionVars, initVars, handleVars, curTool, dispatched,
                   error, runs>>

\* The run fails (the model's API, a step of the workflow).
AgentFail(c) ==
    /\ agentState \in {"thinking", "tool"}
    /\ agentState' = "failed"
    /\ error' = c
    /\ UNCHANGED <<fe, horizon, sessionVars, initVars, handleVars, curTool, dispatched,
                   stream, output, runs>>

\* The session object is replaced by a newly constructed one (__init__).
Construct ==
    /\ Quiet
    /\ agent # None \/ initResult # "none"
    /\ agent' = None
    /\ agent_context' = None
    /\ initialized' = FALSE
    /\ initResult' = "none"
    /\ NoCall
    /\ UNCHANGED <<fe, horizon, ipc, idx, all_tools, fetched, inits>>

\* verbose is a parameter of the CLI function alone.
Verbose(f) == IF f = "cli" THEN BOOLEAN ELSE {FALSE}

Next ==
    \/ \E m \in Messages, v \in Verbose(fe) : HandleSentinel(m, v) /\ Elsewhere
    \/ \E m \in Messages, v \in Verbose(fe), c \in Causes : HandleRunRaise(m, v, c) /\ Elsewhere
    \/ \E m \in Messages, v \in Verbose(fe) : HandleRun(m, v) /\ Elsewhere
    \/ GovernorStep /\ Elsewhere
    \/ StreamRaise /\ Elsewhere
    \/ StreamEnd /\ Elsewhere
    \/ AwaitReturn /\ Elsewhere
    \/ AwaitRaise /\ Elsewhere
    \/ \E t \in Choices(IF agent = None THEN <<>> ELSE agent[1]) : AgentToolCall(t) /\ Elsewhere
    \/ AgentToolResult /\ Elsewhere
    \/ \E o \in Outputs : AgentFinish(o) /\ Elsewhere
    \/ \E c \in Causes : AgentFail(c) /\ Elsewhere
    \/ Construct /\ Elsewhere
    \/ InitializeCall /\ Elsewhere
    \/ FetchOk /\ Elsewhere
    \/ FetchRaise /\ Elsewhere
    \/ BuildAgentOk /\ Elsewhere
    \/ BuildAgentRaise /\ Elsewhere
    \/ BuildContextOk /\ Elsewhere
    \/ BuildContextRaise /\ Elsewhere

Spec == Init /\ [][Next]_vars

(* ------------------------------------------- the governor at full horizon *)
\* Every tool the three providers offer, as _get_agent collects them.
AllTools == to_tool_list(mcp_tool[1]) \o to_tool_list(mcp_tool[2]) \o to_tool_list(mcp_tool[3])

\* The values of (agent, agent_context, initialized) initialize_mcp_clients
\* leaves a session of front end f with.
SessionStates(f) ==
    {<<None, None, FALSE>>, <<Some(AllTools), None, FALSE>>,
     <<Some(AllTools), Some(0), FALSE>>}
    \cup (IF f = "whatsapp" THEN {<<Some(AllTools), Some(0), TRUE>>} ELSE {})

\* handle_user_message on a session in any of these states.
GovInit ==
    /\ Fresh
    /\ horizon = MaxDispatch
    /\ \E st \in SessionStates(fe) :
          /\ agent = st[1]
          /\ agent_context = st[2]
          /\ initialized = st[3]
    /\ NoLookup
    /\ NoConcurrency
    /\ NoFrontEnd
    /\ NoServer

GovNext ==
    \/ \E m \in Messages, v \in Verbose(fe) : HandleSentinel(m, v) /\ Elsewhere
    \/ \E m \in Messages, v \in Verbose(fe), c \in Causes : HandleRunRaise(m, v, c) /\ Elsewhere
    \/ \E m \in Messages, v \in Verbose(fe) : HandleRun(m, v) /\ Elsewhere
    \/ GovernorStep /\ Elsewhere
    \/ StreamRaise /\ Elsewhere
    \/ StreamEnd /\ Elsewhere
    \/ AwaitReturn /\ Elsewhere
    \/ AwaitRaise /\ Elsewhere
    \/ \E t \in Choices(IF agent = None THEN <<>> ELSE agent[1]) : AgentToolCall(t) /\ Elsewhere
    \/ AgentToolResult /\ Elsewhere
    \/ \E o \in Outputs : AgentFinish(o) /\ Elsewhere
    \/ \E c \in Causes : AgentFail(c) /\ Elsewhere

GovSpec == GovInit /\ [][GovNext]_vars

\* The same, with the steps the code's scheduling takes whenever they can be
\* taken: the loop's next turn, the end of the await, a step of the run.  Which
\* step the run takes is the agent's choice.
AgentStep ==
    \/ \E t \in Choices(IF agent = None THEN <<>> ELSE agent[1]) : AgentToolCall(t) /\ Elsewhere
    \/ AgentToolResult /\ Elsewhere
    \/ \E o \in Outputs : AgentFinish(o) /\ Elsewhere
    \/ \E c \in Causes : AgentFail(c) /\ Elsewhere

FairGovSpec ==
    /\ GovSpec
    /\ WF_vars(GovernorStep /\ Elsewhere)
    /\ WF_vars((StreamRaise \/ StreamEnd) /\ Elsewhere)
    /\ WF_vars(AwaitReturn /\ Elsewhere)
    /\ WF_vars(AwaitRaise /\ Elsewhere)
    /\ WF_vars(AgentStep)

(* ------------------------------------------------- gmailServer: contacts *)
\* Text is a sequence of characters.  str.lower() on the letters of ASCII.
UpperCase == <<"A", "B", "C", "D", "E", "F", "G", "H", "I", "J", "K", "L", "M",
               "N", "O", "P", "Q", "R", "S", "T", "U", "V", "W", "X", "Y", "Z">>
LowerCase == <<"a", "b", "c", "d", "e", "f", "g", "h", "i", "j", "k", "l", "m",
               "n", "o", "p", "q", "r", "s", "t", "u", "v", "w", "x", "y", "z">>
lower(s) ==
    [i \in 1..Len(s) |->
        IF \E j \in 1..Len(UpperCase) : UpperCase[j] = s[i]
        THEN LowerCase[CHOOSE j \in 1..Len(UpperCase) : UpperCase[j] = s[i]]
        ELSE s[i]]

\* str.strip(): the white space at both ends goes.
Whitespace == {" ", "\t", "\n", "\r"}
RECURSIVE lstrip(_)
lstrip(s) == IF s # <<>> /\ Head(s) \in Whitespace THEN lstrip(Tail(s)) ELSE s
RECURSIVE rstrip(_)
rstrip(s) ==
    IF s # <<>> /\ s[Len(s)] \in Whitespace THEN rstrip(SubSeq(s, 1, Len(s) - 1)) ELSE s
strip(s) == rstrip(lstrip(s))

\* "=" in line, and line.split("=", 1): what is before and after the first "=".
HasEquals(s) == \E i \in 1..Len(s) : s[i] = "="
split(s) ==
    LET i == CHOOSE k \in 1..Len(s) : s[k] = "=" /\ \A j \in 1..(k - 1) : s[j] # "="
    IN  <<SubSeq(s, 1, i - 1), SubSeq(s, i + 1, Len(s))>>

\* contacts[name.lower().strip()] = email.strip(), for every line with an "="
\* in the order of the file: a later line of the same name replaces the earlier.
RECURSIVE load_contacts(_)
load_contacts(file) ==
    IF file = <<>> THEN [k \in {} |-> <<>>]
    ELSE LET contacts == load_contacts(SubSeq(file, 1, Len(file) - 1))
             line == file[Len(file)]
             pair == split(strip(line))
             name == strip(lower(pair[1]))
         IN  IF HasEquals(line)
             THEN [k \in DOMAIN contacts \cup {name} |->
                     IF k = name THEN strip(pair[2]) ELSE contacts[k]]
             ELSE contacts

\* The key a name is looked up by, as typed.
KeyAsTyped(n) == strip(n)

\* key = n.lower().strip()
Key(n) == strip(lower(n))

\* resolve_emails(names): contacts[key] if key in contacts, else n itself.
resolve_emails(ns, file) ==
    LET contacts == load_contacts(file)
    IN  [i \in 1..Len(ns) |->
            IF Key(ns[i]) \in DOMAIN contacts THEN contacts[Key(ns[i])] ELSE ns[i]]

\* Names a caller passes and lines a contacts file holds.
Names == {<<"A", "l">>,
          <<"a", "l">>,
          <<" ", "A", "L", " ">>,
          <<"B", "o">>,
          <<"b", "@", "y">>,
          <<"c", "y">>}
Lines == {<<"a", "l", "=", "a", "@", "x", "\n">>,
          <<"B", "o", " ", "=", " ", "b", "@", "y", "\n">>,
          <<"a", "l", "=", "c", "@", "z", "\n">>,
          <<"#", " ", "a", "l", "\n">>,
          <<" ", "A", "L", "=", "d", "=", "e", " ", "\n">>}
NameLists == UNION {[1..n -> Names] : n \in 0..MaxNames}
Files == UNION {[1..n -> Lines] : n \in 0..MaxLines}

\* One call of resolve_emails on a contacts file.
GmailInit ==
    /\ Fresh
    /\ fe = "cli"
    /\ horizon = LifecycleDispatch
    /\ agent = None
    /\ agent_context = None
    /\ initialized = FALSE
    /\ contacts_file \in Files
    /\ names \in NameLists
    /\ resolved = None
    /\ NoFrontEnd
    /\ NoConcurrency
    /\ NoServer

ResolveEmails ==
    /\ resolved = None
    /\ resolved' = Some(resolve_emails(names, contacts_file))
    /\ UNCHANGED <<clientVars, contacts_file, names, frontVars, concVars, serverVars>>

GmailNext == ResolveEmails

GmailSpec == GmailInit /\ [][GmailNext]_vars

(* ------------------------------------------------------------ front ends *)
\* help_commands = ["help", "hi", "hello", "start", "menu"]
help_commands == {<<"h", "e", "l", "p">>, <<"h", "i">>, <<"h", "e", "l", "l", "o">>,
                  <<"s", "t", "a", "r", "t">>, <<"m", "e", "n", "u">>}

\* is_help_command on the text as it was typed.
is_help_command_as_typed(m) == m \in help_commands

\* message.lower().strip() in help_commands
is_help_command(m) == strip(lower(m)) \in help_commands

\* message.lower().strip() == "status"
is_status_command(m) == strip(lower(m)) = <<"s", "t", "a", "t", "u", "s">>

\* user_input.strip().lower() == "exit" (the CLI's loop)
is_exit(m) == lower(strip(m)) = <<"e", "x", "i", "t">>

\* filters.COMMAND: the text begins with a bot command.
is_command(m) == m # <<>> /\ m[1] = "/"

\* The canned texts.
get_help_message == "*Meeting Scheduler Bot* ... Just send me a message and I'll help you!"
OnlineMessage == "<U+2705> Meeting Scheduler Bot is online and ready to help!"
TgWelcomeMessage == "**Meeting Scheduler Bot** ... Just send me a message and I'll help you!"
TgHelpMessage == "**Available Commands:** ... Type any of these commands and I'll help you!"

\* What the except clauses around a request answer.
RequestErrorText(c) == "Sorry, I encountered an error processing your request: " \o c
WrapperErrorText(c) == WaMark \o "Sorry, I encountered an error: " \o c
TgMessageError == TgMark \o "Sorry, I encountered an error processing your message."

\* Texts a user sends.
Inbound == {<<" ", "H", "i", " ">>, <<"S", "T", "A", "T", "U", "S">>, <<"h", "e", "l", "p">>,
            <<"f", "r", "e", "e", "?">>, <<"/", "h", "e", "l", "p">>, <<"e", "x", "i", "t">>}

\* agent.run(...) raises c, or raises nothing.
NoRaise == ""

\* The process starts: nothing has been constructed.
FrontInit ==
    /\ Fresh
    /\ horizon = LifecycleDispatch
    /\ agent = None
    /\ agent_context = None
    /\ initialized = FALSE
    /\ NoLookup
    /\ NoConcurrency
    /\ NoServer
    /\ proc = "starting"
    /\ fpc = "idle"
    /\ inbound = None
    /\ reply = None
    /\ route = "none"
    /\ built = FALSE
    /\ called = FALSE
    /\ constructions = 0
    /\ loads = 0

\* WhatsApp: the application is up; it makes no session when it starts.
AppStart ==
    /\ proc = "starting"
    /\ fe = "whatsapp"
    /\ proc' = "serving"
    /\ UNCHANGED <<clientVars, gmailVars, concVars, serverVars, fpc, inbound, reply, route, built, called, constructions, loads>>

\* Telegram main: bot = TelegramMeetingScheduler() raises ValueError (no
\* TELEGRAM_API_KEY); except: log, raise.
MainConstructRaise ==
    /\ proc = "starting"
    /\ fe = "telegram"
    /\ proc' = "crashed"
    /\ UNCHANGED <<clientVars, gmailVars, concVars, serverVars, fpc, inbound, reply, route, built, called, constructions, loads>>

\* main: await bot.initialize_mcp_clients() (Telegram);
\* agent = await get_agent(mcp_tool); agent_context = Context(agent) (CLI).
MainInitialize ==
    /\ proc = "starting"
    /\ fe \in {"telegram", "cli"}
    /\ InitializeCall
    /\ proc' = "loading"
    /\ UNCHANGED <<gmailVars, concVars, serverVars, fpc, inbound, reply, route, built, called, constructions, loads>>

\* main goes on: run_bot_async() (Telegram), the input loop (CLI).
MainInitReturned ==
    /\ proc = "loading"
    /\ ipc = "idle"
    /\ initResult = "ok"
    /\ proc' = "serving"
    /\ UNCHANGED <<clientVars, gmailVars, concVars, serverVars, fpc, inbound, reply, route, built, called, constructions, loads>>

\* MainInitRaised that logs the failure and goes on to serve.
MainInitRaisedServes ==
    /\ proc = "loading"
    /\ ipc = "idle"
    /\ initResult \notin {"none", "ok"}
    /\ proc' = "serving"
    /\ UNCHANGED <<clientVars, gmailVars, concVars, serverVars, fpc, inbound, reply, route, built, called, constructions, loads>>

\* The load raised into main's except clause: Telegram logs and raises again
\* (asyncio.run(main()) ends on the exception), the CLI prints "Fatal error in
\* main" and main returns.
MainInitRaised ==
    /\ proc = "loading"
    /\ ipc = "idle"
    /\ initResult \notin {"none", "ok"}
    /\ proc' = IF fe = "telegram" THEN "crashed" ELSE "exited"
    /\ UNCHANGED <<clientVars, gmailVars, concVars, serverVars, fpc, inbound, reply, route, built, called, constructions, loads>>

\* A request arrives at a serving front end whose last request is over.
Arrives(m) ==
    /\ proc = "serving"
    /\ fpc \in {"idle", "replied"}
    /\ inbound' = Some(m)
    /\ built' = FALSE
    /\ constructions' = 0
    /\ loads' = 0

\* handle_user_message(m) is entered: the sentinel, the run, or agent.run
\* raising c.
CallHandle(m, v, c) ==
    IF NotInitialized(fe, initialized, agent, agent_context) THEN HandleSentinel(m, v)
    ELSE IF c = NoRaise THEN HandleRun(m, v)
    ELSE HandleRunRaise(m, v, c)

\* generate_response: the event loop cannot be had; except: the error text.
WaWrapperRaise(m, c) ==
    /\ fe = "whatsapp"
    /\ Arrives(m)
    /\ route' = "none"
    /\ called' = FALSE
    /\ reply' = Some(WrapperErrorText(c))
    /\ fpc' = "replied"
    /\ UNCHANGED <<clientVars, gmailVars, concVars, serverVars, proc>>

\* generate_response_async: help, status, or process_message_with_mcp.
WaGenerate(m) ==
    /\ fe = "whatsapp"
    /\ Arrives(m)
    /\ called' = FALSE
    /\ route' = IF is_help_command(m) THEN "help"
                ELSE IF is_status_command(m) THEN "status"
                ELSE "session"
    /\ reply' = IF is_help_command(m) THEN Some(get_help_message)
                ELSE IF is_status_command(m) THEN Some(OnlineMessage)
                ELSE None
    /\ fpc' = IF is_help_command(m) \/ is_status_command(m) THEN "replied" ELSE "construct"
    /\ UNCHANGED <<clientVars, gmailVars, concVars, serverVars, proc>>

\* WaConstruct with one client kept by the module and used for every request.
WaConstructKept ==
    /\ fe = "whatsapp"
    /\ fpc = "construct"
    /\ built' = TRUE
    /\ constructions' = IF agent # None \/ initResult # "none" THEN 0 ELSE 1
    /\ fpc' = "initialize"
    /\ UNCHANGED <<clientVars, gmailVars, concVars, serverVars, proc, inbound, reply, route, called, loads>>

\* mcp_client = WhatsAppMCPClient(): a session of its own for the request.
WaConstruct ==
    /\ fe = "whatsapp"
    /\ fpc = "construct"
    /\ IF agent # None \/ initResult # "none" THEN Construct ELSE UNCHANGED clientVars
    /\ built' = TRUE
    /\ constructions' = constructions + 1
    /\ fpc' = "initialize"
    /\ UNCHANGED <<gmailVars, concVars, serverVars, proc, inbound, reply, route, called, loads>>

\* WhatsAppMCPClient() raises; except: the error text of the request.
WaConstructRaise(c) ==
    /\ fe = "whatsapp"
    /\ fpc = "construct"
    /\ reply' = Some(RequestErrorText(c))
    /\ fpc' = "replied"
    /\ UNCHANGED <<clientVars, gmailVars, concVars, serverVars, proc, inbound, route, built, called, constructions, loads>>

\* await mcp_client.initialize_mcp_clients()
WaInitialize ==
    /\ fe = "whatsapp"
    /\ fpc = "initialize"
    /\ InitializeCall
    /\ loads' = loads + 1
    /\ fpc' = "loading"
    /\ UNCHANGED <<gmailVars, concVars, serverVars, proc, inbound, reply, route, built, called, constructions>>

\* initialize_mcp_clients raised; except: the error text of the request.
WaInitRaised(c) ==
    /\ fe = "whatsapp"
    /\ fpc = "loading"
    /\ ipc = "idle"
    /\ initResult \notin {"none", "ok"}
    /\ reply' = Some(RequestErrorText(c))
    /\ fpc' = "replied"
    /\ UNCHANGED <<clientVars, gmailVars, concVars, serverVars, proc, inbound, route, built, called, constructions, loads>>

\* response = await mcp_client.handle_user_message(message)
WaHandle(c) ==
    /\ fe = "whatsapp"
    /\ fpc = "loading"
    /\ ipc = "idle"
    /\ initResult = "ok"
    /\ CallHandle(inbound[1], FALSE, c)
    /\ called' = TRUE
    /\ fpc' = "handle"
    /\ UNCHANGED <<gmailVars, concVars, serverVars, proc, inbound, reply, route, built, constructions, loads>>

\* /start and /help: the CommandHandlers answer; no handler has another command.
TgCommand(m) ==
    /\ fe = "telegram"
    /\ Arrives(m)
    /\ is_command(m)
    /\ called' = FALSE
    /\ reply' = IF m = <<"/", "s", "t", "a", "r", "t">> THEN Some(TgWelcomeMessage)
                ELSE IF m = <<"/", "h", "e", "l", "p">> THEN Some(TgHelpMessage)
                ELSE None
    /\ fpc' = "replied"
    /\ UNCHANGED <<clientVars, gmailVars, concVars, serverVars, proc, route>>

\* handle_message: send_chat_action raises; except: the fixed error text.
TgTypingRaise(m) ==
    /\ fe = "telegram"
    /\ Arrives(m)
    /\ ~is_command(m)
    /\ called' = FALSE
    /\ reply' = Some(TgMessageError)
    /\ fpc' = "replied"
    /\ UNCHANGED <<clientVars, gmailVars, concVars, serverVars, proc, route>>

\* handle_message: response = await self.handle_user_message(user_message)
TgHandleMessage(m, c) ==
    /\ fe = "telegram"
    /\ Arrives(m)
    /\ ~is_command(m)
    /\ CallHandle(m, FALSE, c)
    /\ called' = TRUE
    /\ reply' = None
    /\ fpc' = "handle"
    /\ UNCHANGED <<gmailVars, concVars, serverVars, proc, route>>

\* The CLI's loop: if user_input.strip().lower() == "exit": break
CliExit(m) ==
    /\ fe = "cli"
    /\ Arrives(m)
    /\ is_exit(m)
    /\ called' = FALSE
    /\ reply' = None
    /\ fpc' = "idle"
    /\ proc' = "exited"
    /\ UNCHANGED <<clientVars, gmailVars, concVars, serverVars, route>>

\* The CLI's loop: response = await handle_user_message(user_input, agent,
\* agent_context, verbose=True)
CliHandle(m, c) ==
    /\ fe = "cli"
    /\ Arrives(m)
    /\ ~is_exit(m)
    /\ CallHandle(m, TRUE, c)
    /\ called' = TRUE
    /\ reply' = None
    /\ fpc' = "handle"
    /\ UNCHANGED <<gmailVars, concVars, serverVars, proc, route>>

\* The call returned: return response (WhatsApp), reply_text(response)
\* (Telegram), print("Agent:", response) (CLI).
Respond ==
    /\ fpc = "handle"
    /\ pc = "done"
    /\ reply' = Some(result.text)
    /\ fpc' = "replied"
    /\ UNCHANGED <<clientVars, gmailVars, concVars, serverVars, proc, inbound, route, built, called, constructions, loads>>

FrontNext ==
    \/ AppStart
    \/ MainConstructRaise
    \/ MainInitialize
    \/ MainInitReturned
    \/ MainInitRaised
    \/ \E m \in Inbound, c \in Causes : WaWrapperRaise(m, c)
    \/ \E m \in Inbound : WaGenerate(m)
    \/ WaConstruct
    \/ \E c \in Causes : WaConstructRaise(c)
    \/ WaInitialize
    \/ \E c \in Causes : WaInitRaised(c)
    \/ \E c \in Causes \cup {NoRaise} : WaHandle(c)
    \/ \E m \in Inbound : TgCommand(m)
    \/ \E m \in Inbound : TgTypingRaise(m)
    \/ \E m \in Inbound, c \in Causes \cup {NoRaise} : TgHandleMessage(m, c)
    \/ \E m \in Inbound : CliExit(m)
    \/ \E m \in Inbound, c \in Causes \cup {NoRaise} : CliHandle(m, c)
    \/ Respond
    \/ FetchOk /\ Elsewhere
    \/ FetchRaise /\ Elsewhere
    \/ BuildAgentOk /\ Elsewhere
    \/ BuildAgentRaise /\ Elsewhere
    \/ BuildContextOk /\ Elsewhere
    \/ BuildContextRaise /\ Elsewhere
    \/ GovernorStep /\ Elsewhere
    \/ StreamRaise /\ Elsewhere
    \/ StreamEnd /\ Elsewhere
    \/ AwaitReturn /\ Elsewhere
    \/ AwaitRaise /\ Elsewhere
    \/ AgentStep

FrontSpec == FrontInit /\ [][FrontNext]_vars

(* ----------------------------------------------------------- concurrency *)
\* Requests of one process, each with the text it carries: its own number.
Requests == 1..MaxConcurrent

\* A session object before __init__ and a handle_user_message call before it
\* is made.
NoSession == [stage |-> "none", llm |-> 0, agentLlm |-> 0, ctx |-> 0]
NotCalled == [stage |-> "waiting", ctx |-> 0, llm |-> 0, seen |-> <<>>]

\* The session a request is served by: one constructed for it in
\* process_message_with_mcp, the one main has constructed in Telegram and the CLI.
SessionOf(r) == IF fe = "whatsapp" THEN r ELSE 1

ConcInit ==
    /\ Fresh
    /\ horizon = LifecycleDispatch
    /\ agent = None
    /\ agent_context = None
    /\ initialized = FALSE
    /\ NoLookup
    /\ NoFrontEnd
    /\ NoServer
    /\ Settings_llm = 0
    /\ sessions = [s \in Requests |-> NoSession]
    /\ contexts = <<>>
    /\ calls = [r \in Requests |-> NotCalled]

\* __init__: self.llm = Groq(...); Settings.llm = self.llm
SessionConstruct(s) ==
    /\ sessions[s].stage = "none"
    /\ fe = "whatsapp" \/ s = 1
    /\ sessions' = [sessions EXCEPT ![s].stage = "constructed", ![s].llm = s]
    /\ Settings_llm' = s
    /\ UNCHANGED <<clientVars, gmailVars, frontVars, serverVars, contexts, calls>>

\* SessionGetAgent that leaves the model to the default: FunctionAgent(...)
\* without llm= takes Settings.llm.
SessionGetAgentDefaultLlm(s) ==
    /\ sessions[s].stage = "constructed"
    /\ sessions' = [sessions EXCEPT ![s].stage = "agent", ![s].agentLlm = Settings_llm]
    /\ UNCHANGED <<clientVars, gmailVars, frontVars, serverVars, Settings_llm, contexts, calls>>

\* _get_agent: FunctionAgent(..., llm=self.llm, ...)
SessionGetAgent(s) ==
    /\ sessions[s].stage = "constructed"
    /\ sessions' = [sessions EXCEPT ![s].stage = "agent", ![s].agentLlm = sessions[s].llm]
    /\ UNCHANGED <<clientVars, gmailVars, frontVars, serverVars, Settings_llm, contexts, calls>>

\* self.agent_context = Context(self.agent): a new object.
SessionContext(s) ==
    /\ sessions[s].stage = "agent"
    /\ contexts' = Append(contexts, <<>>)
    /\ sessions' = [sessions EXCEPT ![s].stage = "ready", ![s].ctx = Len(contexts) + 1]
    /\ UNCHANGED <<clientVars, gmailVars, frontVars, serverVars, Settings_llm, calls>>

\* The call has been made and has not returned.
InFlight(c) == c.stage \in {"streaming", "awaiting"}

\* Exclusive with updates handed to their handlers as they come.
ExclusiveNever(r) == TRUE

\* A request's handler starts while another's is running: in WhatsApp (one
\* thread and event loop per webhook request); not in Telegram, whose
\* Application is built without concurrent updates and awaits handle_message
\* before it takes the next update, nor in the CLI, whose loop awaits the call
\* before the next input().
Exclusive(r) ==
    fe = "whatsapp" \/ \A q \in Requests \ {r} : ~InFlight(calls[q])

\* handler = self.agent.run(message_content, ctx=self.agent_context): the
\* message goes into the context the session holds.
CallRun(r) ==
    /\ calls[r].stage = "waiting"
    /\ sessions[SessionOf(r)].stage = "ready"
    /\ Exclusive(r)
    /\ LET c == sessions[SessionOf(r)].ctx
       IN  /\ contexts' = [contexts EXCEPT ![c] = Append(@, r)]
           /\ calls' = [calls EXCEPT ![r] = [stage |-> "streaming", ctx |-> c,
                                             llm |-> sessions[SessionOf(r)].agentLlm,
                                             seen |-> <<>>]]
    /\ UNCHANGED <<clientVars, gmailVars, frontVars, serverVars, Settings_llm, sessions>>

\* async for event in handler.stream_events(): the loop is over.
CallStreamed(r) ==
    /\ calls[r].stage = "streaming"
    /\ calls' = [calls EXCEPT ![r].stage = "awaiting"]
    /\ UNCHANGED <<clientVars, gmailVars, frontVars, serverVars, Settings_llm, sessions, contexts>>

\* response = await handler; return str(response): the answer is made from
\* what the context holds.
CallReturn(r) ==
    /\ calls[r].stage = "awaiting"
    /\ calls' = [calls EXCEPT ![r].stage = "returned", ![r].seen = contexts[calls[r].ctx]]
    /\ UNCHANGED <<clientVars, gmailVars, frontVars, serverVars, Settings_llm, sessions, contexts>>

ConcNext ==
    \/ \E s \in Requests : SessionConstruct(s)
    \/ \E s \in Requests : SessionGetAgent(s)
    \/ \E s \in Requests : SessionContext(s)
    \/ \E r \in Requests : CallRun(r)
    \/ \E r \in Requests : CallStreamed(r)
    \/ \E r \in Requests : CallReturn(r)

ConcSpec == ConcInit /\ [][ConcNext]_vars

(* --------------------------------------------------------- call_mcp_tool *)
\* A step of one server function leaves the sessions and the other functions
\* alone.
NoServerStep(others) ==
    UNCHANGED <<clientVars, gmailVars, frontVars, concVars>> /\ UNCHANGED others

\* tool_name and args as callers pass them.
ToolNames == {"send_email", "create_event", "send_mom"}
ToolArgs == {<<>>, <<<<"to", "al">>>>, <<<<"to", "al">>, <<"body", "hi">>>>}
\* What client.call_tool returns: any object, one of them shaped as a failure.
ToolResults ==
    {[success |-> TRUE, message |-> "sent"],
     [success |-> TRUE, message |-> ""],
     [success |-> FALSE, message |-> "no such contact"]}
\* client.call_tool(tool_name, args): returns a result or raises with str(e).
ToolOutcomes ==
    {[raises |-> FALSE, value |-> r] : r \in ToolResults}
        \cup {[raises |-> TRUE, value |-> c] : c \in Causes}

\* {"success": False, "message": f"Error calling tool {tool_name}: {str(e)}"}
ToolFailure(n, c) ==
    [success |-> FALSE, message |-> "Error calling tool " \o n \o ": " \o c]

ToolInit ==
    /\ Fresh
    /\ fe = "cli"
    /\ horizon = LifecycleDispatch
    /\ agent = None
    /\ agent_context = None
    /\ initialized = FALSE
    /\ NoLookup
    /\ NoFrontEnd
    /\ NoConcurrency
    /\ tool_pc = "idle"
    /\ tool_name \in ToolNames
    /\ args \in ToolArgs
    /\ call_tool \in ToolOutcomes
    /\ client_calls = <<>>
    /\ tool_return = None
    /\ NoSendMom
    /\ NoHook

\* result = await client.call_tool(tool_name, args): the call is made.
CallMcpTool ==
    /\ tool_pc = "idle"
    /\ client_calls' = Append(client_calls, <<tool_name, args>>)
    /\ tool_pc' = "awaiting"
    /\ UNCHANGED <<tool_name, args, call_tool, tool_return>>
    /\ NoServerStep(<<momVars, hookVars>>)

\* return result
CallToolReturns ==
    /\ tool_pc = "awaiting"
    /\ ~call_tool.raises
    /\ tool_return' = Some(call_tool.value)
    /\ tool_pc' = "returned"
    /\ UNCHANGED <<tool_name, args, call_tool, client_calls>>
    /\ NoServerStep(<<momVars, hookVars>>)

\* CallToolRaises calling the tool a second time before it gives up.
CallToolRaisesRetries ==
    /\ tool_pc = "awaiting"
    /\ call_tool.raises
    /\ IF Len(client_calls) < 2
       THEN /\ client_calls' = Append(client_calls, <<tool_name, args>>)
            /\ UNCHANGED <<tool_pc, tool_return>>
       ELSE /\ tool_return' = Some(ToolFailure(tool_name, call_tool.value))
            /\ tool_pc' = "returned"
            /\ UNCHANGED client_calls
    /\ UNCHANGED <<tool_name, args, call_tool>>
    /\ NoServerStep(<<momVars, hookVars>>)

\* except Exception as e: return the failure record
CallToolRaises ==
    /\ tool_pc = "awaiting"
    /\ call_tool.raises
    /\ tool_return' = Some(ToolFailure(tool_name, call_tool.value))
    /\ tool_pc' = "returned"
    /\ UNCHANGED <<tool_name, args, call_tool, client_calls>>
    /\ NoServerStep(<<momVars, hookVars>>)

ToolNext ==
    \/ CallMcpTool
    \/ CallToolReturns
    \/ CallToolRaises

ToolSpec == ToolInit /\ [][ToolNext]_vars

(* -------------------------------------------------------------- send_mom *)
Transcripts == {"Al: ship it. Bo: ok.", ""}
\* self.llm.complete(prompt): returns response.text or raises with str(e).
Completions ==
    {[raises |-> FALSE, value |-> t] : t \in {"Agenda: shipping", ""}}
        \cup {[raises |-> TRUE, value |-> c] : c \in Causes}
\* The response of the mail server's send_email tool: its JSON text says whether
\* the mail went out (gmailServer.send_email returns its failures); the text is
\* response.content.text where there is one and in str(response) otherwise.
Responses ==
    {[sent |-> ok, text |-> t, str |-> "CallToolResult(...)"] :
        ok \in BOOLEAN, t \in {None, Some("{...}")}}
Deliveries ==
    {[raises |-> FALSE, value |-> r] : r \in Responses}
        \cup {[raises |-> TRUE, value |-> c] : c \in Causes}

\* json.dumps({"success": True, "mom": mom, "email_response": email_result})
MomSuccess(m, r) ==
    [success |-> TRUE, mom |-> Some(m), email_response |-> Some(r), error |-> None]
\* json.dumps({"success": False, "error": str(e)})
MomFailure(c) ==
    [success |-> FALSE, mom |-> None, email_response |-> None, error |-> Some(c)]

MomInit ==
    /\ Fresh
    /\ fe = "cli"
    /\ horizon = LifecycleDispatch
    /\ agent = None
    /\ agent_context = None
    /\ initialized = FALSE
    /\ NoLookup
    /\ NoFrontEnd
    /\ NoConcurrency
    /\ NoToolCall
    /\ mom_pc = "idle"
    /\ transcript \in Transcripts
    /\ complete \in Completions
    /\ send_email \in Deliveries
    /\ mom = None
    /\ emails = <<>>
    /\ mom_return = None
    /\ NoHook

\* send_mom is entered: the names are parsed and generate_mom is called.
SendMom ==
    /\ mom_pc = "idle"
    /\ mom_pc' = "generating"
    /\ UNCHANGED <<transcript, complete, send_email, mom, emails, mom_return>>
    /\ NoServerStep(<<toolVars, hookVars>>)

\* mom = mom_server.generate_mom(transcript) returns; the client of the mail
\* server is made and send_email is called with the minutes as body.
GenerateReturns ==
    /\ mom_pc = "generating"
    /\ ~complete.raises
    /\ mom' = Some(complete.value)
    /\ emails' = Append(emails, [subject |-> "Minutes of Meeting (MoM)",
                                 body |-> complete.value])
    /\ mom_pc' = "sending"
    /\ UNCHANGED <<transcript, complete, send_email, mom_return>>
    /\ NoServerStep(<<toolVars, hookVars>>)

\* generate_mom prints and raises again; send_mom's except returns the failure.
GenerateRaises ==
    /\ mom_pc = "generating"
    /\ complete.raises
    /\ mom_return' = Some(MomFailure(complete.value))
    /\ mom_pc' = "returned"
    /\ UNCHANGED <<transcript, complete, send_email, mom, emails>>
    /\ NoServerStep(<<toolVars, hookVars>>)

\* The email call returns a response: success is returned with its text.
SendReturns ==
    /\ mom_pc = "sending"
    /\ ~send_email.raises
    /\ LET response == send_email.value
           email_result == IF response.text # None THEN response.text[1]
                           ELSE response.str
       IN  mom_return' = Some(MomSuccess(mom[1], email_result))
    /\ mom_pc' = "returned"
    /\ UNCHANGED <<transcript, complete, send_email, mom, emails>>
    /\ NoServerStep(<<toolVars, hookVars>>)

\* The email call raises: send_mom's except returns the failure.
SendRaises ==
    /\ mom_pc = "sending"
    /\ send_email.raises
    /\ mom_return' = Some(MomFailure(send_email.value))
    /\ mom_pc' = "returned"
    /\ UNCHANGED <<transcript, complete, send_email, mom, emails>>
    /\ NoServerStep(<<toolVars, hookVars>>)

MomNext ==
    \/ SendMom
    \/ GenerateReturns
    \/ GenerateRaises
    \/ SendReturns
    \/ SendRaises

MomSpec == MomInit /\ [][MomNext]_vars

(* --------------------------------------------------------------- webhook *)
\* JSON values as Python holds them: [t, v] with t "dict" (v the items, a
\* sequence of <<key, value>>), "list", "str" or "null"; an exception raised
\* by an expression is [t |-> "exc", v |-> its class].
Truthy(x) ==
    CASE x.t = "str" -> x.v # ""
      [] x.t \in {"dict", "list"} -> x.v # <<>>
      [] OTHER -> FALSE
\* x.get(k, d)
get(x, k, d) ==
    IF x.t = "exc" THEN x
    ELSE IF x.t # "dict" THEN [t |-> "exc", v |-> "AttributeError"]
    ELSE IF \E i \in 1..Len(x.v) : x.v[i][1] = k
         THEN x.v[CHOOSE i \in 1..Len(x.v) : x.v[i][1] = k][2]
         ELSE d
\* x[k], k a string
key(x, k) ==
    IF x.t = "exc" THEN x
    ELSE IF x.t # "dict" THEN [t |-> "exc", v |-> "TypeError"]
    ELSE get(x, k, [t |-> "exc", v |-> "KeyError"])
\* x[0]; of a string it is a string of one character
item0(x) ==
    CASE x.t = "exc" -> x
      [] x.t = "list" -> IF x.v = <<>> THEN [t |-> "exc", v |-> "IndexError"] ELSE x.v[1]
      [] x.t = "str" -> IF x.v = "" THEN [t |-> "exc", v |-> "IndexError"]
                        ELSE [t |-> "str", v |-> "c"]
      [] x.t = "dict" -> [t |-> "exc", v |-> "KeyError"]
      [] OTHER -> [t |-> "exc", v |-> "TypeError"]

\* The request bodies: request.get_json() of what is posted.
Bodies ==
    LET D(items) == [t |-> "dict", v |-> items]
        L(elems) == [t |-> "list", v |-> elems]
        S(s) == [t |-> "str", v |-> s]
        null == [t |-> "null", v |-> <<>>]
        Event(value) ==
            D(<<<<"object", S("whatsapp_business_account")>>,
                <<"entry", L(<<D(<<<<"changes", L(<<D(<<<<"value", value>>>>)>>)>>>>)>>)>>>>)
        contact == <<"contacts", L(<<D(<<<<"wa_id", S("911")>>,
                                         <<"profile", D(<<<<"name", S("Al")>>>>)>>>>)>>)>>
        text == <<"messages", L(<<D(<<<<"type", S("text")>>,
                                      <<"text", D(<<<<"body", S("free?")>>>>)>>>>)>>)>>
    IN  { Event(D(<<contact, text>>)),
          Event(D(<<contact, <<"messages", L(<<D(<<<<"type", S("image")>>>>)>>)>>>>)),
          Event(D(<<text>>)),
          Event(D(<<<<"contacts", L(<<D(<<<<"profile", D(<<>>)>>>>)>>)>>, text>>)),
          Event(D(<<contact, <<"messages", L(<<D(<<<<"type", S("text")>>>>)>>)>>>>)),
          Event(D(<<contact, <<"messages", L(<<D(<<<<"type", S("text")>>,
                                                   <<"text", null>>>>)>>)>>>>)),
          Event(D(<<<<"contacts", L(<<D(<<<<"wa_id", S("911")>>,
                                          <<"profile", S("Al")>>>>)>>)>>, text>>)),
          Event(D(<<<<"statuses", L(<<D(<<<<"status", S("read")>>>>)>>)>>>>)),
          Event(D(<<contact, <<"messages", L(<<>>)>>>>)),
          Event(D(<<contact, <<"messages", D(<<<<"0", S("x")>>>>)>>>>)),
          D(<<>>),
          L(<<S("x")>>),
          D(<<<<"entry", null>>>>),
          D(<<<<"entry", S("abc")>>>>),
          D(<<<<"object", S("page")>>>>) }

\* views.handle_message: the value it tests for a status update.
has_statuses(b) ==
    get(get(item0(get(item0(get(b, "entry", [t |-> "list", v |-> <<[t |-> "dict", v |-> <<>>]>>])),
                      "changes", [t |-> "list", v |-> <<[t |-> "dict", v |-> <<>>]>>])),
            "value", [t |-> "dict", v |-> <<>>]),
        "statuses", [t |-> "null", v |-> <<>>])

\* The value of the and-chain: the first operand that is false or raises, or
\* the last one.
is_valid_whatsapp_message(b) ==
    LET null == [t |-> "null", v |-> <<>>]
        and(x, y) == IF x.t = "exc" \/ ~Truthy(x) THEN x ELSE y
        value == key(item0(key(item0(key(b, "entry")), "changes")), "value")
    IN  and(get(b, "object", null),
        and(get(b, "entry", null),
        and(get(item0(key(b, "entry")), "changes", null),
        and(get(item0(key(item0(key(b, "entry")), "changes")), "value", null),
        and(get(value, "messages", null),
            item0(key(value, "messages")))))))

\* process_whatsapp_message up to its first send, return or exception: wa_id as
\* it stands then, and the step taken: "return", "only_text", "generate", or
\* "except".
Extract(b) ==
    LET null == [t |-> "null", v |-> <<>>]
        empty == [t |-> "list", v |-> <<>>]
        value == key(item0(key(item0(key(b, "entry")), "changes")), "value")
        contacts == get(value, "contacts", empty)
        wa == key(item0(contacts), "wa_id")
        name == get(get(item0(contacts), "profile", [t |-> "dict", v |-> <<>>]),
                    "name", [t |-> "str", v |-> "Unknown"])
        messages == get(value, "messages", empty)
        m == item0(messages)
        type == get(m, "type", null)
        txt == key(m, "text")
        known == Some(wa.v)
        Out(w, s, ty) == [wa_id |-> w, step |-> s, type |-> ty]
    IN  IF contacts.t = "exc" THEN Out(None, "except", "")
        ELSE IF ~Truthy(contacts) THEN Out(None, "return", "")
        ELSE IF wa.t = "exc" THEN Out(None, "except", "")
        ELSE IF name.t = "exc" THEN Out(known, "except", "")
        ELSE IF ~Truthy(messages) THEN Out(known, "return", "")
        ELSE IF type.t = "exc" THEN Out(known, "except", "")
        ELSE IF type.t # "str" THEN Out(known, "only_text", "None")
        ELSE IF type.v # "text" THEN Out(known, "only_text", type.v)
        ELSE IF txt.t = "exc" THEN Out(known, "return", "")
        ELSE IF txt.t \notin {"dict", "list", "str"} THEN Out(known, "except", "")
        ELSE IF txt.t # "dict" THEN Out(known, "return", "")
        ELSE IF key(txt, "body").t = "exc" THEN Out(known, "return", "")
        ELSE Out(known, "generate", "")

\* What generate_response returns: any text.
GeneratedResponses ==
    {<<"o", "k">>, <<"*", "*", "o", "k", "*", "*", " ">>,
     <<"<U+3010>", "1", "<U+3011>", " ", "o", "k">>}

\* re.sub(r"\<U+3010>.*?\<U+3011>", "", text).strip(), then
\* re.sub(r"\*\*(.*?)\*\*", r"*\1*", ...)
process_text_for_whatsapp(text) ==
    LET RECURSIVE unbracket(_)
        unbracket(s) ==
            IF s = <<>> THEN <<>>
            ELSE IF Head(s) = "<U+3010>" /\ \E j \in 2..Len(s) : s[j] = "<U+3011>"
                 THEN LET j == CHOOSE k \in 2..Len(s) :
                                  s[k] = "<U+3011>" /\ \A i \in 2..(k - 1) : s[i] # "<U+3011>"
                      IN  unbracket(SubSeq(s, j + 1, Len(s)))
                 ELSE <<Head(s)>> \o unbracket(Tail(s))
        Stars(s, j) == j + 1 <= Len(s) /\ s[j] = "*" /\ s[j + 1] = "*"
        RECURSIVE emphasis(_)
        emphasis(s) ==
            IF s = <<>> THEN <<>>
            ELSE IF Stars(s, 1) /\ \E j \in 3..Len(s) : Stars(s, j)
                 THEN LET j == CHOOSE k \in 3..Len(s) :
                                  Stars(s, k) /\ \A i \in 3..(k - 1) : ~Stars(s, i)
                      IN  <<"*">> \o SubSeq(s, 3, j - 1) \o <<"*">>
                              \o emphasis(SubSeq(s, j + 2, Len(s)))
                 ELSE <<Head(s)>> \o emphasis(Tail(s))
    IN  emphasis(strip(unbracket(text)))

\* The texts process_whatsapp_message writes itself.
OnlyTextMessage(type) ==
    WaMark \o "I can only process text messages. You sent a " \o type \o " message."
GenericErrorMessage ==
    WaMark \o "Sorry, I encountered an error processing your message. Please try again."

HookInit ==
    /\ Fresh
    /\ fe = "whatsapp"
    /\ horizon = LifecycleDispatch
    /\ agent = None
    /\ agent_context = None
    /\ initialized = FALSE
    /\ NoLookup
    /\ NoFrontEnd
    /\ NoConcurrency
    /\ NoToolCall
    /\ NoSendMom
    /\ via \in {"webhook", "direct"}
    /\ hook_pc = IF via = "webhook" THEN "post" ELSE "process"
    /\ body \in Bodies
    /\ wa_id = None
    /\ wa_response = None
    /\ generated = 0
    /\ pending = None
    /\ outbox = <<>>
    /\ processed = 0
    /\ send_raised = 0
    /\ http_status = None

\* handle_message up to its return or its call of process_whatsapp_message.
\* An exception the status test does not catch leaves the view: Flask answers
\* 500. The branch of 404 first logs the keys of the value, catching KeyError
\* and IndexError alone.
HandleMessage ==
    /\ hook_pc = "post"
    /\ LET s == has_statuses(body)
           v == is_valid_whatsapp_message(body)
           dbg == key(item0(key(item0(key(body, "entry")), "changes")), "value")
           Answer(code, text) ==
               /\ http_status' = Some([code |-> code, message |-> text])
               /\ hook_pc' = "responded"
       IN  IF ~Truthy(body) THEN Answer(400, "Empty body")
           ELSE IF s.t = "exc" /\ s.v \notin {"KeyError", "IndexError", "AttributeError"}
                THEN Answer(500, "Internal Server Error")
           ELSE IF s.t # "exc" /\ Truthy(s) THEN Answer(200, "ok")
           ELSE IF v.t = "exc" THEN Answer(500, "Processing error: " \o v.v)
           ELSE IF ~Truthy(v)
                THEN IF Truthy(get(body, "entry", v)) /\ dbg.t = "exc"
                        /\ dbg.v \notin {"KeyError", "IndexError"}
                     THEN Answer(500, "Processing error: " \o dbg.v)
                     ELSE Answer(404, "Not a WhatsApp API event")
           ELSE /\ hook_pc' = "process"
                /\ UNCHANGED http_status
    /\ UNCHANGED <<via, body, wa_id, wa_response, generated, pending, outbox, processed, send_raised>>
    /\ NoServerStep(<<toolVars, momVars>>)

\* ProcessWhatsappMessage going on to the text branch after the reply to a
\* message that is not a text.
ProcessWhatsappMessageFallsThrough ==
    /\ hook_pc = "process"
    /\ LET x == Extract(body)
       IN  /\ wa_id' = x.wa_id
           /\ CASE x.step = "return" -> hook_pc' = "returned" /\ pending' = None
                [] x.step = "only_text" ->
                      /\ hook_pc' = "generate"
                      /\ pending' = None
                [] x.step = "generate" -> hook_pc' = "generate" /\ pending' = None
                [] x.step = "except" ->
                      IF x.wa_id # None
                      THEN /\ hook_pc' = "send"
                           /\ pending' = Some([kind |-> "error", text |-> GenericErrorMessage])
                      ELSE hook_pc' = "returned" /\ pending' = None
           /\ outbox' = IF x.step = "only_text"
                        THEN Append(outbox, [to |-> x.wa_id[1], kind |-> "only_text",
                                             text |-> OnlyTextMessage(x.type), result |-> "sent"])
                        ELSE outbox
    /\ processed' = processed + 1
    /\ UNCHANGED <<via, body, wa_response, generated, send_raised, http_status>>
    /\ NoServerStep(<<toolVars, momVars>>)

\* process_whatsapp_message is entered and runs to its first send, its call of
\* generate_response, or its return.
ProcessWhatsappMessage ==
    /\ hook_pc = "process"
    /\ LET x == Extract(body)
       IN  /\ wa_id' = x.wa_id
           /\ CASE x.step = "return" -> hook_pc' = "returned" /\ pending' = None
                [] x.step = "only_text" ->
                      /\ hook_pc' = "send"
                      /\ pending' = Some([kind |-> "only_text", text |-> OnlyTextMessage(x.type)])
                [] x.step = "generate" -> hook_pc' = "generate" /\ pending' = None
                [] x.step = "except" ->
                      IF x.wa_id # None
                      THEN /\ hook_pc' = "send"
                           /\ pending' = Some([kind |-> "error", text |-> GenericErrorMessage])
                      ELSE hook_pc' = "returned" /\ pending' = None
    /\ processed' = processed + 1
    /\ UNCHANGED <<via, body, wa_response, generated, outbox, send_raised, http_status>>
    /\ NoServerStep(<<toolVars, momVars>>)

\* response = generate_response(message_body), which raises nothing; the text
\* is formatted and handed to send_message.
GenerateResponse(r) ==
    /\ hook_pc = "generate"
    /\ generated' = generated + 1
    /\ wa_response' = Some(r)
    /\ pending' = Some([kind |-> "reply", text |-> process_text_for_whatsapp(r)])
    /\ hook_pc' = "send"
    /\ UNCHANGED <<via, body, wa_id, outbox, processed, send_raised, http_status>>
    /\ NoServerStep(<<toolVars, momVars>>)

\* send_message(data) posts and returns, whatever became of the post: it went
\* through, timed out or failed (the last two answered to the caller, not
\* raised).
SendMessage(o) ==
    /\ hook_pc = "send"
    /\ outbox' = Append(outbox, [to |-> wa_id[1], kind |-> pending[1].kind,
                                 text |-> pending[1].text, result |-> o])
    /\ pending' = None
    /\ hook_pc' = "returned"
    /\ UNCHANGED <<via, body, wa_id, wa_response, generated, processed, send_raised, http_status>>
    /\ NoServerStep(<<toolVars, momVars>>)

\* send_message(data) raises before the post, an exception other than of
\* requests: in the try it sends process_whatsapp_message to
\* its except clause, which sends the generic text; in the except clause it
\* leaves process_whatsapp_message.
SendMessageRaises ==
    /\ hook_pc = "send"
    /\ IF pending[1].kind = "error"
       THEN /\ hook_pc' = "raised"
            /\ pending' = None
       ELSE /\ hook_pc' = "send"
            /\ pending' = Some([kind |-> "error", text |-> GenericErrorMessage])
    /\ send_raised' = send_raised + 1
    /\ UNCHANGED <<via, body, wa_id, wa_response, generated, outbox, processed, http_status>>
    /\ NoServerStep(<<toolVars, momVars>>)

\* handle_message after process_whatsapp_message: 200, or 500 from its except.
HandleMessageReturns ==
    /\ via = "webhook"
    /\ hook_pc \in {"returned", "raised"}
    /\ http_status = None
    /\ http_status' = IF hook_pc = "returned" THEN Some([code |-> 200, message |-> "ok"])
                      ELSE Some([code |-> 500, message |-> "Processing error: send_message"])
    /\ UNCHANGED <<hook_pc, via, body, wa_id, wa_response, generated, pending, outbox,
                   processed, send_raised>>
    /\ NoServerStep(<<toolVars, momVars>>)

HookNext ==
    \/ HandleMessage
    \/ ProcessWhatsappMessage
    \/ \E r \in GeneratedResponses : GenerateResponse(r)
    \/ \E o \in {"sent", "timeout", "failed"} : SendMessage(o)
    \/ SendMessageRaises
    \/ HandleMessageReturns

HookSpec == HookInit /\ [][HookNext]_vars

(* ---------------------------------------------------------------- claims *)
Bots == {"whatsapp", "telegram"}

\* The ceiling the specification names (default 5).
Ceiling == 5

\* ToolCall events of a sequence of events.
RECURSIVE CallsIn(_)
CallsIn(evs) ==
    IF evs = <<>> THEN 0
    ELSE (IF Head(evs).type = "ToolCall" THEN 1 ELSE 0) + CallsIn(Tail(evs))

\* The invocation and result lines of a sequence of events, in its order.
RECURSIVE Observed(_)
Observed(evs) ==
    IF evs = <<>> THEN <<>>
    ELSE (CASE Head(evs).type = "ToolCall" -> <<LogCall(Head(evs).tool)>>
            [] Head(evs).type = "ToolCallResult" -> <<LogResult(Head(evs).tool)>>
            [] OTHER -> <<>>) \o Observed(Tail(evs))

Warnings(l) == {i \in 1..Len(l) : l[i].kind = "warning"}

ErrorTexts == {ErrorText(f, c) : f \in FrontEnds, c \in Causes \cup {NoneRunCause}}

\* C1: in each of the three front ends handle_user_message ends by returning a
\* string, whatever the message and whether the run raises when it is started,
\* while its events are streamed or when its result is awaited; no exception
\* leaves the call.
C1_Totality ==
    /\ result.kind # "raised"
    /\ pc = "done" <=> result.kind = "returned"
    /\ pc = "done" =>
          result.text \in Sentinels \cup ErrorTexts \cup {Str(o) : o \in Outputs}

\* C1: a call that ended on the exception of the awaited run, after a cut.
C1_Witness ==
    /\ pc = "done"
    /\ cut
    /\ agentState = "failed"
    /\ result = Returned(ErrorText(fe, error))

C3_NoDispatchBeyondCeiling ==
    (fe \in Bots /\ pc # "idle") => dispatched <= Ceiling

\* C4: where the ceiling applies, the loop counts the ToolCall events it has
\* taken, leaves the stream at the one that makes Ceiling + 1, logs exactly one
\* warning (with that count, as its last line) and takes no event after it.
C4_CutAtCeiling ==
    (Governing(fe, verbose) /\ pc # "idle") =>
        /\ tool_call_count = CallsIn(SubSeq(stream, 1, pos))
        /\ tool_call_count <= Ceiling + 1
        /\ cut <=> tool_call_count = Ceiling + 1
        /\ Cardinality(Warnings(log)) = (IF cut THEN 1 ELSE 0)
        /\ cut => /\ stream[pos].type = "ToolCall"
                  /\ log[Len(log)] = LogWarning(Ceiling + 1)
                  /\ pc \in {"await", "done"}

\* C4: the loop has been left at the sixth ToolCall while the run goes on.
C4_Witness ==
    /\ cut
    /\ pc = "await"
    /\ Len(stream) > pos
    /\ agentState = "tool"

\* C5 as stated: a call whose stream was cut and whose run settled returns a
\* non-empty string that is neither the error string nor the sentinel.
C5_NonEmptyAfterCut ==
    (pc = "done" /\ cut /\ agentState = "finished") =>
        /\ result.text # ""
        /\ result.text \notin Sentinels \cup ErrorTexts

\* C5 amended: after a cut the call still awaits the run; it returns str() of
\* the final output, whatever that is (the empty string included), returns
\* the error string only when the run itself raised, and never the sentinel.
C5_FinalOutputAfterCut ==
    cut =>
        /\ pc = "await" => result = NoResult /\ agentState # "off"
        /\ pc = "done" =>
              \/ agentState = "finished" /\ result = Returned(Str(output))
              \/ agentState = "failed" /\ result = Returned(ErrorText(fe, error))

\* C5: a cut call that returned an output rendering as the empty string.
C5_Witness ==
    /\ pc = "done"
    /\ cut
    /\ agentState = "finished"
    /\ result = Returned("")

\* C6: once the loop has been left at the ceiling the call returns, however
\* long the agent goes on invoking tools.
C6_ReturnsAfterCut == cut ~> (pc = "done")

\* C7: a governed call whose run made N <= Ceiling invocations and settled has
\* logged every invocation and result in the order of the stream, was not cut,
\* logged no warning, and returns str() of the final output.
C7_AllObservedBelowCeiling ==
    (Governing(fe, verbose) /\ pc # "idle" /\ CallsIn(stream) <= Ceiling) =>
        /\ ~cut
        /\ Warnings(log) = {}
        /\ log = Observed(SubSeq(stream, 1, pos))
        /\ (pc = "done" /\ agentState = "finished") =>
              /\ pos = Len(stream)
              /\ log = Observed(stream)
              /\ result = Returned(Str(output))

\* C7: a returned call that saw Ceiling invocations of two different tools.
C7_Witness ==
    /\ fe \in Bots
    /\ pc = "done"
    /\ agentState = "finished"
    /\ CallsIn(stream) = Ceiling
    /\ Len(log) = 2 * Ceiling
    /\ log[1].tool # log[3].tool

\* C8: in the two bots a call made after a failed initialize returns the
\* sentinel without starting a run.
C8_FailedInitStaysUninitialized ==
    (fe \in Bots /\ pc # "idle"
       /\ initAtCall \in {"fetch_raised", "agent_raised", "context_raised"}) =>
        /\ pc = "done"
        /\ result = Returned(Sentinel(fe))

\* Tools of the first n providers.
RECURSIVE ToolsUpTo(_)
ToolsUpTo(n) == IF n = 0 THEN <<>> ELSE ToolsUpTo(n - 1) \o to_tool_list(mcp_tool[n])

\* C9: a provider whose fetch raises ends initialize there: the call is over
\* (the error has left it), the providers after it were not asked, all_tools
\* holds only what came before, and no agent exists but one built from all
\* three providers' tools by a call that went through.
C9_FetchFailureAborts ==
    /\ agent \in {None, Some(ToolsUpTo(Len(mcp_tool)))}
    /\ initResult = "fetch_raised" =>
          /\ ipc = "idle"
          /\ fetched = SubSeq(mcp_tool, 1, Len(fetched))
          /\ idx = Len(fetched)
          /\ all_tools = ToolsUpTo(Len(fetched) - 1)
          /\ agent_context = None => ~initialized
          /\ inits = 1 => agent = None /\ agent_context = None

\* C9: the second provider's fetch raised on a session's first initialize.
C9_Witness ==
    /\ initResult = "fetch_raised"
    /\ fetched = <<"gmail", "calendar">>
    /\ agent = None

\* C10: when the second of the three providers fails, initialize ends with an
\* agent holding the tools of the first and the third, and the session is
\* initialized.
C10_PartialFailureIsolated ==
    (ipc = "idle" /\ initResult = "fetch_raised" /\ Len(fetched) = 2) =>
        /\ agent = Some(to_tool_list(mcp_tool[1]) \o to_tool_list(mcp_tool[3]))
        /\ agent_context # None
        /\ fe = "whatsapp" => initialized

\* The mark a front end puts before the text of an error.
ErrorMark(f) == IF f = "telegram" THEN TgMark ELSE ""

\* The call ended on an exception raised inside it: by agent.run itself, by
\* the stream or by the awaited run.
EndedOnException ==
    /\ pc = "done"
    /\ ~uninitAtCall
    /\ agentState \in {"off", "failed"}

\* C15: a call that ended on an exception returns exactly
\* "Sorry, I encountered an error: <cause>" with the cause's own text, the same
\* in every front end and wherever in the call the exception was raised.
C15_UniformErrorText ==
    EndedOnException =>
        \E c \in Causes \cup {NoneRunCause} :
            /\ result = Returned("Sorry, I encountered an error: " \o c)
            /\ agentState = "failed" => c = error

\* What does hold: the same text with the cause's own words, after the X mark
\* in Telegram and after nothing in WhatsApp and the CLI.
ErrorTextPerFrontEndOk ==
    EndedOnException =>
        \E c \in Causes \cup {NoneRunCause} :
            /\ result = Returned(ErrorMark(fe) \o "Sorry, I encountered an error: " \o c)
            /\ agentState = "failed" => c = error

\* The tool names of the three providers, in the order they are registered.
RegisteredTools ==
    <<"send_email", "check_availability", "get_schedule", "generate_mom", "send_mom">>

\* C19: when every provider responds, each is asked once, in the order gmail,
\* calendar, minutes, and the agent holds the providers' tools concatenated in
\* that order, none dropped, moved or merged.
C19_ToolsInRegistrationOrder ==
    /\ ipc \in {"agent", "context"} =>
          /\ fetched = <<"gmail", "calendar", "mom">>
          /\ all_tools = RegisteredTools
    /\ initResult = "ok" =>
          /\ fetched = <<"gmail", "calendar", "mom">>
          /\ all_tools = RegisteredTools
          /\ agent = Some(RegisteredTools)
          /\ Len(agent[1]) = Len(to_tool_list("gmail")) + Len(to_tool_list("calendar"))
                               + Len(to_tool_list("mom"))

\* C19: an initialize call went through, all three providers responding.
C19_Witness ==
    /\ initResult = "ok"
    /\ ipc = "idle"
    /\ fetched = <<"gmail", "calendar", "mom">>
    /\ agent = Some(RegisteredTools)

\* Invocation lines of a log.
Passed(l) == {i \in 1..Len(l) : l[i].kind = "call"}

\* C20: every call starts counting at 0 and counts the ToolCall events of its
\* own stream only, whatever the calls before it counted; the count never
\* exceeds Ceiling + 1 and at most Ceiling invocations are logged.
C20_CountPerRequest ==
    pc # "idle" =>
        /\ pos = 0 => tool_call_count = 0
        /\ tool_call_count <= CallsIn(SubSeq(stream, 1, pos))
        /\ Governing(fe, verbose) => tool_call_count >= CallsIn(SubSeq(stream, 1, pos))
        /\ tool_call_count <= Ceiling + 1
        /\ Cardinality(Passed(log)) <= Ceiling
        /\ Cardinality(Passed(log)) <= tool_call_count

\* C20: the second call on a session is cut at its own sixth invocation, five
\* of them logged.
C20_Witness ==
    /\ requests = 2
    /\ runs = 2
    /\ cut
    /\ tool_call_count = Ceiling + 1
    /\ Cardinality(Passed(log)) = Ceiling


\* C17: resolve_emails returns a list as long as the names it was given and in
\* their order: a name whose lower-cased, trimmed form is a name of the
\* directory is replaced by that name's address (so "Al" resolves through the
\* line "al=a@x"), every other name is returned as it was given.
C17_ResolveEmails ==
    resolved # None =>
        LET out == resolved[1]
            directory == load_contacts(contacts_file)
        IN  /\ Len(out) = Len(names)
            /\ \A i \in 1..Len(names) :
                  LET k == strip(lower(names[i]))
                  IN  IF k \in DOMAIN directory
                      THEN out[i] = directory[k]
                      ELSE out[i] = names[i]
            /\ \A i \in 1..Len(names) :
                  (contacts_file = <<<<"a", "l", "=", "a", "@", "x", "\n">>>> /\ names[i] \in {<<"A", "l">>, <<"a", "l">>, <<" ", "A", "L", " ">>})
                      => out[i] = <<"a", "@", "x">>

\* C17: a mixed-case name was resolved through a lower-case line of the file
\* and a name the file does not hold was passed through after it.
C17_Witness ==
    /\ contacts_file = <<<<"a", "l", "=", "a", "@", "x", "\n">>>>
    /\ names = <<<<"A", "l">>, <<"c", "y">>>>
    /\ resolved = Some(<<<<"a", "@", "x">>, <<"c", "y">>>>)

\* The keyword sets the specification names, and a text's lower-cased,
\* trimmed form.
HelpKeywords == {<<"h", "e", "l", "p">>, <<"h", "i">>, <<"h", "e", "l", "l", "o">>,
                 <<"s", "t", "a", "r", "t">>, <<"m", "e", "n", "u">>}
StatusKeyword == <<"s", "t", "a", "t", "u", "s">>
Trimmed(m) == strip(lower(m))

\* C11: in WhatsApp a text whose lower-cased, trimmed form is help, hi, hello,
\* start or menu is answered with the help text and one whose form is status
\* with the online message, no session being constructed, initialized or called
\* for it; every text falls in exactly one of help, status and neither, whatever
\* came before it, and one that is neither goes on to a session.
C11_WhatsAppShortcuts ==
    (fe = "whatsapp" /\ inbound # None /\ route # "none") =>
        LET k == Trimmed(inbound[1])
        IN  /\ route \in {"help", "status", "session"}
            /\ k \in HelpKeywords =>
                  /\ route = "help"
                  /\ reply = Some(get_help_message)
                  /\ fpc = "replied" /\ ~built /\ ~called
            /\ k = StatusKeyword =>
                  /\ route = "status"
                  /\ reply = Some(OnlineMessage)
                  /\ fpc = "replied" /\ ~built /\ ~called
            /\ (k \notin HelpKeywords /\ k # StatusKeyword) =>
                  /\ route = "session"
                  /\ fpc = "construct" \/ built \/ reply \in {Some(RequestErrorText(c)) : c \in Causes}
            /\ called => built /\ initResult = "ok"

\* C11: " Hi " was answered with the help text after an earlier request had
\* gone through a session.
C11_Witness ==
    /\ fe = "whatsapp"
    /\ inbound = Some(<<" ", "H", "i", " ">>)
    /\ reply = Some(get_help_message)
    /\ ~built
    /\ requests = 1

\* C12: in every front end a text of the help or status keyword set is
\* answered with a canned text and handle_user_message is not called for it.
C12_ShortcutsInEveryFrontEnd ==
    (inbound # None /\ fpc \in {"handle", "replied"}
       /\ Trimmed(inbound[1]) \in HelpKeywords \cup {StatusKeyword}) =>
        /\ ~called
        /\ reply \in {Some(get_help_message), Some(OnlineMessage), Some(TgHelpMessage),
                      Some(TgWelcomeMessage)}
                     \cup {Some(WrapperErrorText(c)) : c \in Causes} \cup {Some(TgMessageError)}

\* C16: no failure ends the process or leaves a request without an answer: the
\* process serves on unless the CLI's user typed exit, and a request that is
\* over has been answered with a text.
C16_NoFailureFatal ==
    /\ proc # "crashed"
    /\ proc = "exited" => (fe = "cli" /\ inbound # None /\ is_exit(inbound[1]))
    /\ fpc = "replied" => reply # None

\* C18: handle_user_message is called, and a run of the agent started, only on
\* a session whose initialize call has returned without raising: in WhatsApp
\* before the call of the request, in Telegram and the CLI before the first
\* text is taken.
C18_LoadedBeforeMessages ==
    /\ pc # "idle" => initAtCall = "ok"
    /\ called => initResult = "ok"
    /\ agentState # "off" => (initResult = "ok" /\ ipc = "idle" /\ agent = Some(RegisteredTools))
    /\ (fe \in {"telegram", "cli"} /\ inbound # None) => initResult = "ok"
    /\ ipc # "idle" => pc = "idle" /\ ~called

\* C18: a run is on its way for a Telegram text, the load having gone through.
C18_Witness ==
    /\ fe = "telegram"
    /\ called
    /\ agentState = "thinking"
    /\ pc = "stream"
    /\ initResult = "ok"

\* The elements of a sequence.
Range(q) == {q[i] : i \in 1..Len(q)}

\* C13: calls made at the same time on two sessions constructed apart never
\* meet in a context: each runs on the context and with the model object of
\* its own session, whichever constructor bound the default model last, and
\* what it answers from holds no message of the other.
C13_NoCrossTalk ==
    \A r \in DOMAIN calls :
        calls[r].stage # "waiting" =>
            /\ calls[r].ctx = sessions[SessionOf(r)].ctx
            /\ calls[r].llm = sessions[SessionOf(r)].llm
            /\ \A q \in DOMAIN calls \ {r} :
                  SessionOf(q) # SessionOf(r) =>
                      /\ calls[q].stage # "waiting" => calls[q].ctx # calls[r].ctx
                      /\ q \notin Range(contexts[calls[r].ctx])
                      /\ q \notin Range(calls[r].seen)

\* C13: the first request has answered from its own message alone while the
\* second is running, the second session's constructor having bound the
\* default model before the first built its agent.
C13_Witness ==
    /\ fe = "whatsapp"
    /\ Settings_llm = 2
    /\ calls[1].stage = "returned"
    /\ calls[1].seen = <<1>>
    /\ calls[1].llm = 1
    /\ calls[2].stage = "streaming"
    /\ sessions[1].ctx = 2

C22_FreshSessionPerMessage ==
    fe = "whatsapp" =>
        /\ constructions <= 1
        /\ loads <= constructions
        /\ route # "session" => constructions = 0
        /\ (route = "session" /\ fpc \in {"loading", "handle"}) =>
              (constructions = 1 /\ loads = 1)
        /\ called => (constructions = 1 /\ loads = 1)
        /\ fpc = "initialize" =>
              /\ constructions = 1
              /\ agent = None /\ agent_context = None /\ ~initialized
              /\ pc = "idle" /\ log = <<>> /\ stream = <<>> /\ agentState = "off"
        /\ (fpc = "loading" /\ ipc = "idle" /\ initResult = "ok") => agent_context = Some(0)
        /\ agentState # "off" => agent_context = Some(1)

\* C22: the second message served by a session is in its run, on a context
\* that holds one turn.
C22_Witness ==
    /\ fe = "whatsapp"
    /\ runs = 2
    /\ called
    /\ constructions = 1
    /\ loads = 1
    /\ agentState = "thinking"
    /\ agent_context = Some(1)

C24_CallOnceNoRetry ==
    /\ tool_pc \in {"idle", "awaiting", "returned"}
    /\ Len(client_calls) <= 1
    /\ tool_pc # "idle" => client_calls = <<<<tool_name, args>>>>
    /\ tool_pc # "returned" => tool_return = None
    /\ tool_pc = "returned" =>
          /\ Len(tool_return) = 1
          /\ ~call_tool.raises => tool_return[1] = call_tool.value
          /\ call_tool.raises =>
                /\ tool_return[1].success = FALSE
                /\ tool_return[1].message =
                      "Error calling tool " \o tool_name \o ": " \o call_tool.value

\* C24: the tool raised and the record came back after the one call.
C24_Witness ==
    /\ tool_pc = "returned"
    /\ call_tool.raises
    /\ tool_name = "send_email"
    /\ Len(client_calls) = 1
    /\ tool_return = Some(ToolFailure("send_email", call_tool.value))

\* The email of a send_mom call did not go out: the call of the mail tool
\* raised, or the mail server answered that sending failed.
SendingFailed == send_email.raises \/ ~send_email.value.sent

\* C25: send_mom calls the mail tool at most once and only with minutes it has
\* generated, not at all when generation failed; a call in which generation or
\* sending failed returns success false and never raises; and success true is
\* returned only after the email call has returned.
C25_SendMomOrderAndFailures ==
    /\ mom_pc \in {"idle", "generating", "sending", "returned"}
    /\ Len(emails) <= 1
    /\ emails # <<>> => (mom # None /\ emails[1].body = mom[1])
    /\ complete.raises => emails = <<>>
    /\ mom_pc = "returned" =>
          /\ Len(mom_return) = 1
          /\ complete.raises => ~mom_return[1].success
          /\ (~complete.raises /\ SendingFailed) => ~mom_return[1].success
          /\ mom_return[1].success => (Len(emails) = 1 /\ ~send_email.raises)

\* What holds of send_mom: the statement above with the failures of sending
\* taken to be the exceptions of the email call alone.
SendMomExceptionsReturned ==
    /\ mom_pc \in {"idle", "generating", "sending", "returned"}
    /\ Len(emails) <= 1
    /\ emails # <<>> => (mom # None /\ emails[1].body = mom[1])
    /\ complete.raises => emails = <<>>
    /\ mom_pc = "returned" =>
          /\ Len(mom_return) = 1
          /\ mom_return[1].success = ~(complete.raises \/ send_email.raises)
          /\ mom_return[1].success => Len(emails) = 1

\* C26: process_whatsapp_message posts at most one message for a body: none
\* when the body has no contacts, no messages or no text body; to a message
\* that is not a text the one reply saying so, generate_response not being
\* called; to a text the one reply with the generated response as formatted;
\* and after a failure with the sender id known the one generic error text;
\* the last three unless send_message itself raised.
C26_AtMostOneOutbound ==
    LET x == Extract(body)
        over == hook_pc \in {"returned", "raised"}
        One(k) == /\ Len(outbox) = 1
                  /\ outbox[1].kind = k
                  /\ outbox[1].to = x.wa_id[1]
    IN  /\ Len(outbox) <= 1
        /\ processed <= 1
        /\ generated <= 1
        /\ (over /\ x.step = "return") => (outbox = <<>> /\ generated = 0)
        /\ (processed = 1 /\ x.step = "only_text") => generated = 0
        /\ (over /\ x.step = "only_text" /\ send_raised = 0) =>
              (One("only_text") /\ outbox[1].text = OnlyTextMessage(x.type))
        /\ (over /\ x.step = "generate") => generated = 1
        /\ (over /\ x.step = "generate" /\ send_raised = 0) =>
              (One("reply") /\ outbox[1].text = process_text_for_whatsapp(wa_response[1]))
        /\ (over /\ x.step = "except" /\ x.wa_id = None) => outbox = <<>>
        /\ (over /\ x.step = "except" /\ x.wa_id # None /\ send_raised = 0) =>
              (One("error") /\ outbox[1].text = GenericErrorMessage)
        /\ (over /\ outbox # <<>> /\ outbox[1].kind = "error") =>
              (x.wa_id # None /\ (x.step = "except" \/ send_raised = 1))

\* C26: a text whose generated response the formatting changed was answered
\* with the one reply, handed in by the webhook.
C26_Witness ==
    /\ via = "webhook"
    /\ hook_pc = "returned"
    /\ http_status # None
    /\ Extract(body).step = "generate"
    /\ generated = 1
    /\ Len(outbox) = 1
    /\ outbox[1].kind = "reply"
    /\ outbox[1].text = <<"o", "k">>
    /\ wa_response # Some(<<"o", "k">>)

\* C27: handle_message answers an empty body with 400, a body carrying
\* statuses with 200 without processing it, a body with a valid message
\* structure with 200 after processing it once (500 if processing raised), and
\* any other body with 404 without processing it.
C27_FourOutcomes ==
    LET s == has_statuses(body)
        v == is_valid_whatsapp_message(body)
        carrying == s.t # "exc" /\ Truthy(s)
        valid == v.t # "exc" /\ Truthy(v)
    IN  (via = "webhook" /\ http_status # None) =>
            /\ processed <= 1
            /\ IF ~Truthy(body) THEN http_status[1].code = 400 /\ processed = 0
               ELSE IF carrying THEN http_status[1].code = 200 /\ processed = 0
               ELSE IF valid
                    THEN /\ processed = 1
                         /\ http_status[1].code = IF hook_pc = "raised" THEN 500 ELSE 200
                    ELSE http_status[1].code = 404 /\ processed = 0

\* What holds of handle_message: the statement above, but a body on which the
\* status test, the validity test or the logging of the 404 branch raises is
\* answered 500 without being processed.
HandleMessageOutcomes ==
    LET s == has_statuses(body)
        v == is_valid_whatsapp_message(body)
        dbg == key(item0(key(item0(key(body, "entry")), "changes")), "value")
        carrying == s.t # "exc" /\ Truthy(s)
        valid == v.t # "exc" /\ Truthy(v)
        raising == \/ s.t = "exc" /\ s.v = "TypeError"
                   \/ v.t = "exc"
                   \/ dbg.t = "exc" /\ dbg.v \in {"TypeError", "AttributeError"}
                      /\ Truthy(get(body, "entry", v))
    IN  (via = "webhook" /\ http_status # None) =>
            /\ processed <= 1
            /\ IF ~Truthy(body) THEN http_status[1].code = 400 /\ processed = 0
               ELSE IF carrying THEN http_status[1].code = 200 /\ processed = 0
               ELSE IF raising THEN http_status[1].code = 500 /\ processed = 0
               ELSE IF valid
                    THEN /\ processed = 1
                         /\ http_status[1].code = IF hook_pc = "raised" THEN 500 ELSE 200
                    ELSE http_status[1].code = 404 /\ processed = 0

\* The life cycle leaves a session in no other state between two calls.
SessionStateOk ==
    (Quiet /\ requests = 0) => <<agent, agent_context, initialized>> \in SessionStates(fe)
====
